---- MODULE Spec2Model ----
(***************************************************************************)
(* Automatic TLS initialisation of a node (pkg/server/auto_tls_init.go):   *)
(* the certificate bundle workflows InitializeFromConfig (bootstrap),      *)
(* InitializeNodeFromBundle (receiveBundle), collectLocalCABundle          *)
(* (collectLocalBundle) and rotateGeneratedCerts (rotate), run against one *)
(* certs directory, with read and write failures of the filesystem.        *)
(***************************************************************************)
EXTENDS Integers, Sequences, FiniteSets, TLC

(***************************************************************************)
(* Bounds of the exploration.                                              *)
(***************************************************************************)
\* steps of one behaviour: workflow calls, and files placed or removed
MaxSteps == 3
\* of these, files an operator places in or removes from the directory
MaxOperatorOps == 2
\* workflow calls in which the filesystem fails
MaxFaults == 1
\* addresses in one call of extractHosts
MaxAddrs == 3
\* lines of the input of testfilter
MaxLines == 3
\* operations on single slots in one behaviour
MaxSlotOps == 3

(***************************************************************************)
(* Slots, files and file contents.                                         *)
(***************************************************************************)
\* The five fields of CertificateBundle, in the order every workflow visits
\* them.
SlotOrder == <<"InterNode", "UserAuth", "SQLService", "RPCService", "AdminUIService">>

Slots == {SlotOrder[i] : i \in 1..Len(SlotOrder)}

SlotIndex(s) == CHOOSE i \in 1..Len(SlotOrder) : SlotOrder[i] = s

FileKinds == {"caCert", "caKey", "hostCert", "hostKey"}

\* certnames.Locator: one path per slot and artifact.
Path(s, k) == [slot |-> s, kind |-> k]

Files == {Path(s, k) : s \in Slots, k \in FileKinds}

\* Lifetimes, in hours.
defaultCALifetime == 10 * 366 * 24

defaultCertLifetime == 5 * 366 * 24

\* username.NodeUser, the common name of every host certificate but the
\* Admin UI's.
NodeUser == <<"n", "o", "d", "e">>

\* A PEM block is modelled by what it encodes: its type, the issuance
\* (serial) it comes from and, for a certificate, the fields it was created
\* with.  A certificate and its private key carry the same serial.
CACertPEM(n, life) == [kind |-> "CERTIFICATE", serial |-> n, issuer |-> n, life |-> life,
                       cn |-> <<>>, sans |-> <<>>, dual |-> FALSE, isCA |-> TRUE]

CAKeyPEM(n) == [kind |-> "PRIVATE KEY", serial |-> n, issuer |-> 0, life |-> 0,
                cn |-> <<>>, sans |-> <<>>, dual |-> FALSE, isCA |-> TRUE]

HostCertPEM(n, ca, life, cn, sans, dual) ==
  [kind |-> "CERTIFICATE", serial |-> n, issuer |-> ca, life |-> life,
   cn |-> cn, sans |-> sans, dual |-> dual, isCA |-> FALSE]

HostKeyPEM(n) == [kind |-> "PRIVATE KEY", serial |-> n, issuer |-> 0, life |-> 0,
                  cn |-> <<>>, sans |-> <<>>, dual |-> FALSE, isCA |-> FALSE]

\* A nil *pem.Block.
NoBlock == [kind |-> "nil", serial |-> 0, issuer |-> 0, life |-> 0,
            cn |-> <<>>, sans |-> <<>>, dual |-> FALSE, isCA |-> FALSE]

\* File contents and the []byte fields of a bundle are PEM bytes: the
\* sequence of the blocks encoded in them.  Nil is the nil slice, and the
\* content of a file that does not exist.
Nil == <<>>

\* pem.EncodeToMemory
EncodeToMemory(block) == <<block>>

\* pem.Decode: the first block of the bytes and the rest, or a nil block.
pemDecode(bytes) ==
  IF bytes = Nil THEN [block |-> NoBlock, rest |-> Nil]
  ELSE [block |-> Head(bytes), rest |-> Tail(bytes)]

\* security.PEMToCertificates: every block of the bytes, each of which must
\* be a certificate; nil bytes hold none, and that is no error.
PEMToCertificates(bytes) ==
  IF \E i \in 1..Len(bytes) : bytes[i].kind # "CERTIFICATE"
  THEN [certs |-> <<>>, err |-> "DecodeError"]
  ELSE [certs |-> bytes, err |-> "ok"]

\* The serials of the issuances some bytes hold.
SerialsOf(bytes) == {bytes[i].serial : i \in 1..Len(bytes)}

EmptyDir == [f \in Files |-> Nil]

\* The serials of the material in a directory.
DiskSerials(d) == UNION {SerialsOf(d[f]) : f \in Files}

\* ServiceCertificateBundle{} and CertificateBundle{}.
EmptyService == [CACertificate |-> Nil, CAKey |-> Nil,
                 HostCertificate |-> Nil, HostKey |-> Nil]

EmptyBundle == [s \in Slots |-> EmptyService]

(***************************************************************************)
(* The filesystem and the certificate provider.  A call runs against a     *)
(* context: the directory, the serials already in use, the files it has    *)
(* read and written so far, and the failure the filesystem injects.        *)
(***************************************************************************)
NoFault == [op |-> "none", file |-> Path("InterNode", "caCert")]

ReadFault(f) == [op |-> "read", file |-> f]

WriteFault(f) == [op |-> "write", file |-> f]

\* At most one file is unreadable or unwritable for the length of a call; hit
\* records that the call ran into it, tried the files it opened for writing.
NewCtx(d, used, fault) ==
  [disk |-> d, used |-> used, writes |-> <<>>, reads |-> {}, tried |-> {},
   fault |-> fault, hit |-> FALSE]

\* os.ReadFile: the bytes, or a not-exist error, or another error (permission
\* denied, I/O error); the bytes are nil on an error.
ReadFile(ctx, f) ==
  LET c == [ctx EXCEPT !.reads = @ \cup {f}]
  IN IF ctx.fault = ReadFault(f)
     THEN [data |-> Nil, err |-> "PermissionDenied", ctx |-> [c EXCEPT !.hit = TRUE]]
     ELSE IF ctx.disk[f] = Nil THEN [data |-> Nil, err |-> "NotExist", ctx |-> c]
     ELSE [data |-> ctx.disk[f], err |-> "ok", ctx |-> c]

loadCertificateFile(ctx, f) == ReadFile(ctx, f)

loadKeyFile(ctx, f) == ReadFile(ctx, f)

\* os.Stat / Loader.FileExists.
FileExists(ctx, f) == ctx.disk[f] # Nil

\* security.WritePEMToFile: creates or truncates the file; with overwrite
\* false the file is opened exclusively and an existing file is an error.
WritePEMToFile(ctx, f, block, overwrite) ==
  LET c == [ctx EXCEPT !.tried = @ \cup {f}]
  IN IF ctx.fault = WriteFault(f) THEN [err |-> "IOError", ctx |-> [c EXCEPT !.hit = TRUE]]
     ELSE IF ~overwrite /\ ctx.disk[f] # Nil THEN [err |-> "AlreadyExists", ctx |-> c]
     ELSE [err |-> "ok",
           ctx |-> [c EXCEPT !.disk[f] = EncodeToMemory(block), !.writes = Append(@, f)]]

\* Faulty variant of writeCertificateFile: the overwrite flag is dropped and
\* an existing file is replaced.
writeCertificateFileOverwriting(ctx, f, block, overwrite) ==
  WritePEMToFile(ctx, f, block, TRUE)

\* writeCertificateFile and writeKeyFile: wrappers of WritePEMToFile.
writeCertificateFile(ctx, f, block, overwrite) == WritePEMToFile(ctx, f, block, overwrite)

writeKeyFile(ctx, f, block, overwrite) == WritePEMToFile(ctx, f, block, overwrite)

\* Key generation never repeats a key: a new issuance takes the least serial
\* that names no material the node holds.
FreshSerial(used) ==
  CHOOSE n \in 1..(Cardinality(used) + 1) :
    n \notin used /\ \A m \in 1..(n - 1) : m \in used

\* security.CreateCACertAndKey
CreateCACertAndKey(ctx, life) ==
  LET n == FreshSerial(ctx.used)
  IN [cert |-> CACertPEM(n, life), key |-> CAKeyPEM(n),
      ctx |-> [ctx EXCEPT !.used = @ \cup {n}]]

\* security.CreateServiceCertAndKey: a host certificate signed by caCert
\* with caKey, which must be that certificate's key.
CreateServiceCertAndKey(ctx, life, cn, hostnames, caCert, caKey, dual) ==
  LET n == FreshSerial(ctx.used)
  IN IF caKey.serial # caCert.serial
     THEN [cert |-> NoBlock, key |-> NoBlock, err |-> "SignError", ctx |-> ctx]
     ELSE [cert |-> HostCertPEM(n, caCert.serial, life, cn, hostnames, dual),
           key |-> HostKeyPEM(n), err |-> "ok",
           ctx |-> [ctx EXCEPT !.used = @ \cup {n}]]

(***************************************************************************)
(* ServiceCertificateBundle: the operations on one slot.  Each returns the *)
(* bundle, the context and the error ("ok" for nil; "panic" when the       *)
(* process dies in the call).  p holds the arguments the workflow passes   *)
(* for the slot.                                                           *)
(***************************************************************************)
Ret(sb, ctx, err) == [sb |-> sb, ctx |-> ctx, err |-> err]

\* createServiceCA: a new CA pair, kept in the bundle and written without
\* overwriting.
createServiceCA(sb, ctx, s, initLifespan) ==
  LET g == CreateCACertAndKey(ctx, initLifespan)
      sb1 == [sb EXCEPT !.CACertificate = EncodeToMemory(g.cert),
                        !.CAKey = EncodeToMemory(g.key)]
      w1 == writeCertificateFile(g.ctx, Path(s, "caCert"), g.cert, FALSE)
      w2 == writeKeyFile(w1.ctx, Path(s, "caKey"), g.key, FALSE)
  IN IF w1.err # "ok" THEN Ret(sb1, w1.ctx, w1.err)
     ELSE Ret(sb1, w2.ctx, w2.err)

\* Faulty variant of createServiceCertFromCA: the host pair is written and
\* not kept in the bundle.
createServiceCertFromCANotKept(sb, ctx, s, p) ==
  LET caCertPEM == PEMToCertificates(sb.CACertificate)
      caKeyPEM == pemDecode(sb.CAKey)
  IN IF caCertPEM.err # "ok" THEN Ret(sb, ctx, "DecodeError")
     ELSE IF Len(caKeyPEM.rest) > 0 \/ caKeyPEM.block = NoBlock
       THEN Ret(sb, ctx, "DecodeError")
     ELSE IF Len(caCertPEM.certs) = 0 THEN Ret(sb, ctx, "panic")
     ELSE
       LET g == CreateServiceCertAndKey(ctx, p.certLife, p.cn, p.hostnames,
                                        caCertPEM.certs[1], caKeyPEM.block, p.dual)
           w1 == writeCertificateFile(g.ctx, Path(s, "hostCert"), g.cert, FALSE)
           w2 == writeKeyFile(w1.ctx, Path(s, "hostKey"), g.key, FALSE)
       IN IF g.err # "ok" THEN Ret(sb, ctx, g.err)
          ELSE IF w1.err # "ok" THEN Ret(sb, w1.ctx, w1.err)
          ELSE Ret(sb, w2.ctx, w2.err)

\* The end of loadOrCreateServiceCertificates: with the CA in the bundle,
\* create the host pair and write it without overwriting.
createServiceCertFromCA(sb, ctx, s, p) ==
  LET caCertPEM == PEMToCertificates(sb.CACertificate)
      caKeyPEM == pemDecode(sb.CAKey)
  IN IF caCertPEM.err # "ok" THEN Ret(sb, ctx, "DecodeError")
     ELSE IF Len(caKeyPEM.rest) > 0 \/ caKeyPEM.block = NoBlock
       THEN Ret(sb, ctx, "DecodeError")
     \* caCertPEM[0] of an empty slice
     ELSE IF Len(caCertPEM.certs) = 0 THEN Ret(sb, ctx, "panic")
     ELSE
       LET g == CreateServiceCertAndKey(ctx, p.certLife, p.cn, p.hostnames,
                                        caCertPEM.certs[1], caKeyPEM.block, p.dual)
           sb1 == [sb EXCEPT !.HostCertificate = EncodeToMemory(g.cert),
                             !.HostKey = EncodeToMemory(g.key)]
           w1 == writeCertificateFile(g.ctx, Path(s, "hostCert"), g.cert, FALSE)
           w2 == writeKeyFile(w1.ctx, Path(s, "hostKey"), g.key, FALSE)
       IN IF g.err # "ok" THEN Ret(sb, ctx, g.err)
          ELSE IF w1.err # "ok" THEN Ret(sb1, w1.ctx, w1.err)
          ELSE Ret(sb1, w2.ctx, w2.err)

\* Faulty variant of loadOrCreateServiceCertificates: a host certificate
\* whose key does not load is taken for an absent pair, and the pair is
\* created again.
loadOrCreateRepairingPair(sb, ctx, s, p) ==
  LET r1 == loadCertificateFile(ctx, Path(s, "hostCert"))
      r2 == loadKeyFile(r1.ctx, Path(s, "hostKey"))
      sb2 == [sb EXCEPT !.HostCertificate = r1.data, !.HostKey = r2.data]
      r3 == loadCertificateFile(r2.ctx, Path(s, "caCert"))
      sb3 == [sb2 EXCEPT !.CACertificate = r3.data]
      r4 == loadKeyFile(r3.ctx, Path(s, "caKey"))
      sb4 == [sb3 EXCEPT !.CAKey = r4.data]
      c == createServiceCA(sb3, r3.ctx, s, p.caLife)
  IN IF r1.err = "ok" /\ r2.err = "ok" THEN Ret(sb2, r2.ctx, "ok")
     ELSE IF r3.err = "ok"
       THEN IF r4.err # "ok" THEN Ret(sb4, r4.ctx, "InconsistentPair")
            ELSE createServiceCertFromCA(sb4, r4.ctx, s, p)
     ELSE IF r3.err = "NotExist"
       THEN IF c.err # "ok" THEN c ELSE createServiceCertFromCA(c.sb, c.ctx, s, p)
     ELSE createServiceCertFromCA(sb3, r3.ctx, s, p)

\* loadOrCreateServiceCertificates: load the host pair; failing that load
\* the CA pair, or create it when its certificate does not exist; then
\* create the host pair.
loadOrCreateServiceCertificates(sb, ctx, s, p) ==
  LET r1 == loadCertificateFile(ctx, Path(s, "hostCert"))
      sb1 == [sb EXCEPT !.HostCertificate = r1.data]
  IN IF r1.err = "ok"
     THEN \* the certificate file exists, now load the key
       LET r2 == loadKeyFile(r1.ctx, Path(s, "hostKey"))
           sb2 == [sb1 EXCEPT !.HostKey = r2.data]
       IN IF r2.err # "ok" THEN Ret(sb2, r2.ctx, "InconsistentPair")
          ELSE Ret(sb2, r2.ctx, "ok")
     ELSE \* any error of the load, not only not-exist, comes here
       LET r3 == loadCertificateFile(r1.ctx, Path(s, "caCert"))
           sb3 == [sb1 EXCEPT !.CACertificate = r3.data]
       IN IF r3.err = "ok"
          THEN
            LET r4 == loadKeyFile(r3.ctx, Path(s, "caKey"))
                sb4 == [sb3 EXCEPT !.CAKey = r4.data]
            IN IF r4.err # "ok" THEN Ret(sb4, r4.ctx, "InconsistentPair")
               ELSE createServiceCertFromCA(sb4, r4.ctx, s, p)
          ELSE IF r3.err = "NotExist"
          THEN
            LET c == createServiceCA(sb3, r3.ctx, s, p.caLife)
            IN IF c.err # "ok" THEN c
               ELSE createServiceCertFromCA(c.sb, c.ctx, s, p)
          \* no else case: another error of the CA load falls through
          ELSE createServiceCertFromCA(sb3, r3.ctx, s, p)

\* Faulty variant of writeCAOrFail: the CA is kept in the bundle and no file
\* is written.
writeCAOrFailNotWriting(sb, ctx, s) == Ret(sb, ctx, "ok")

\* writeCAOrFail: write the CA fields the bundle holds, without overwriting.
writeCAOrFail(sb, ctx, s) ==
  LET caCertPEM == pemDecode(sb.CACertificate)
      w1 == IF sb.CACertificate # Nil
            THEN writeCertificateFile(ctx, Path(s, "caCert"), caCertPEM.block, FALSE)
            ELSE [err |-> "ok", ctx |-> ctx]
      caKeyPEM == pemDecode(sb.CAKey)
      w2 == IF sb.CAKey # Nil
            THEN writeKeyFile(w1.ctx, Path(s, "caKey"), caKeyPEM.block, FALSE)
            ELSE [err |-> "ok", ctx |-> w1.ctx]
  IN IF w1.err # "ok" THEN Ret(sb, w1.ctx, w1.err)
     ELSE Ret(sb, w2.ctx, w2.err)

\* Faulty variant of loadCACertAndKey: every slot loads the CA pair of
\* InterNode.
loadCACertAndKeyOfInterNode(sb, ctx, s) ==
  LET r1 == loadCertificateFile(ctx, Path("InterNode", "caCert"))
      sb1 == [sb EXCEPT !.CACertificate = r1.data]
      r2 == loadKeyFile(r1.ctx, Path("InterNode", "caKey"))
      sb2 == [sb1 EXCEPT !.CAKey = r2.data]
  IN IF r1.err # "ok" THEN Ret(sb1, r1.ctx, r1.err)
     ELSE Ret(sb2, r2.ctx, r2.err)

\* Faulty variant of loadCACertAndKey: the host pair of the slot is loaded
\* with the CA pair.
loadCACertAndKeyWithHostPair(sb, ctx, s) ==
  LET r1 == loadCertificateFile(ctx, Path(s, "caCert"))
      sb1 == [sb EXCEPT !.CACertificate = r1.data]
      r2 == loadKeyFile(r1.ctx, Path(s, "caKey"))
      sb2 == [sb1 EXCEPT !.CAKey = r2.data]
      r3 == loadCertificateFile(r2.ctx, Path(s, "hostCert"))
      r4 == loadKeyFile(r3.ctx, Path(s, "hostKey"))
      sb4 == [sb2 EXCEPT !.HostCertificate = r3.data, !.HostKey = r4.data]
  IN IF r1.err # "ok" THEN Ret(sb1, r1.ctx, r1.err)
     ELSE IF r2.err # "ok" THEN Ret(sb2, r2.ctx, r2.err)
     ELSE Ret(sb4, r4.ctx, "ok")

\* loadCACertAndKey: the CA certificate, then the CA key; the first error
\* ends it.
loadCACertAndKey(sb, ctx, s) ==
  LET r1 == loadCertificateFile(ctx, Path(s, "caCert"))
      sb1 == [sb EXCEPT !.CACertificate = r1.data]
      r2 == loadKeyFile(r1.ctx, Path(s, "caKey"))
      sb2 == [sb1 EXCEPT !.CAKey = r2.data]
  IN IF r1.err # "ok" THEN Ret(sb1, r1.ctx, r1.err)
     ELSE Ret(sb2, r2.ctx, r2.err)

\* Faulty variant of loadCACertAndKeyIfExists: a CA that does not exist is
\* an error like any other.
loadCACertAndKeyStrict(sb, ctx, s) == loadCACertAndKey(sb, ctx, s)

\* loadCACertAndKeyIfExists: a not-exist error of loadCACertAndKey is no
\* error.
loadCACertAndKeyIfExists(sb, ctx, s) ==
  LET r == loadCACertAndKey(sb, ctx, s)
  IN IF r.err = "NotExist" THEN Ret(r.sb, r.ctx, "ok") ELSE r

\* Faulty variant of rotateServiceCert: the new certificate is written and
\* the new key is not.
rotateServiceCertWithoutKey(sb, ctx, s, p) ==
  LET caCertPEM == PEMToCertificates(sb.CACertificate)
      caKeyPEM == pemDecode(sb.CAKey)
  IN IF caCertPEM.err # "ok" \/ caKeyPEM.block = NoBlock \/ Len(caCertPEM.certs) = 0
     THEN Ret(sb, ctx, "DecodeError")
     ELSE
       LET g == CreateServiceCertAndKey(ctx, p.certLife, p.cn, p.hostnames,
                                        caCertPEM.certs[1], caKeyPEM.block, p.dual)
           c0 == [g.ctx EXCEPT !.reads = @ \cup {Path(s, "hostCert")}]
           w1 == writeCertificateFile(c0, Path(s, "hostCert"), g.cert, TRUE)
       IN IF g.err # "ok" THEN Ret(sb, ctx, g.err)
          ELSE IF ~FileExists(c0, Path(s, "hostCert")) THEN Ret(sb, c0, "NotExist")
          ELSE Ret(sb, w1.ctx, w1.err)

\* Faulty variant of rotateServiceCert: a host certificate on disk whose key
\* on disk is not its own is not written over.
rotateServiceCertOfMatchingPair(sb, ctx, s, p) ==
  LET caCertPEM == PEMToCertificates(sb.CACertificate)
      caKeyPEM == pemDecode(sb.CAKey)
      c0 == [ctx EXCEPT !.reads = @ \cup {Path(s, "hostCert"), Path(s, "hostKey")}]
  IN IF caCertPEM.err # "ok" \/ caKeyPEM.block = NoBlock \/ Len(caCertPEM.certs) = 0
     THEN Ret(sb, ctx, "DecodeError")
     ELSE IF ~FileExists(c0, Path(s, "hostCert")) THEN Ret(sb, c0, "NotExist")
     ELSE IF SerialsOf(ctx.disk[Path(s, "hostCert")]) # SerialsOf(ctx.disk[Path(s, "hostKey")])
       THEN Ret(sb, c0, "InconsistentPair")
     ELSE
       LET g == CreateServiceCertAndKey(c0, p.certLife, p.cn, p.hostnames,
                                        caCertPEM.certs[1], caKeyPEM.block, p.dual)
           w1 == writeCertificateFile(g.ctx, Path(s, "hostCert"), g.cert, TRUE)
           w2 == writeKeyFile(w1.ctx, Path(s, "hostKey"), g.key, TRUE)
       IN IF g.err # "ok" THEN Ret(sb, c0, g.err)
          ELSE IF w1.err # "ok" THEN Ret(sb, w1.ctx, w1.err)
          ELSE Ret(sb, w2.ctx, w2.err)

\* rotateServiceCert: a new host pair signed by the CA of the bundle,
\* written over the existing files.
rotateServiceCert(sb, ctx, s, p) ==
  LET caCertPEM == PEMToCertificates(sb.CACertificate)
      caKeyPEM == pemDecode(sb.CAKey)
  IN IF caCertPEM.err # "ok" THEN Ret(sb, ctx, "DecodeError")
     ELSE IF Len(caKeyPEM.rest) > 0 \/ caKeyPEM.block = NoBlock
       THEN Ret(sb, ctx, "DecodeError")
     ELSE IF Len(caCertPEM.certs) = 0 THEN Ret(sb, ctx, "panic")
     ELSE
       LET g == CreateServiceCertAndKey(ctx, p.certLife, p.cn, p.hostnames,
                                        caCertPEM.certs[1], caKeyPEM.block, p.dual)
           c0 == [g.ctx EXCEPT !.reads = @ \cup {Path(s, "hostCert")}]
           w1 == writeCertificateFile(c0, Path(s, "hostCert"), g.cert, TRUE)
           \* the second check stats the certificate path again
           w2 == writeKeyFile(w1.ctx, Path(s, "hostKey"), g.key, TRUE)
       IN IF g.err # "ok" THEN Ret(sb, ctx, g.err)
          ELSE IF ~FileExists(c0, Path(s, "hostCert")) THEN Ret(sb, c0, "NotExist")
          ELSE IF w1.err # "ok" THEN Ret(sb, w1.ctx, w1.err)
          ELSE IF ~FileExists(w1.ctx, Path(s, "hostCert")) THEN Ret(sb, w1.ctx, "NotExist")
          ELSE Ret(sb, w2.ctx, w2.err)

(***************************************************************************)
(* Addresses.  An address is the sequence of its characters.               *)
(***************************************************************************)
Colons(a) == {i \in 1..Len(a) : a[i] = ":"}

\* addr.SplitHostPort(a, "0"): the host before the colon; an address with no
\* port gets the default port; more than one colon is an error.
SplitHostPort(a) ==
  IF Cardinality(Colons(a)) > 1 THEN [host |-> <<>>, err |-> "InvalidAddress"]
  ELSE IF Colons(a) = {} THEN [host |-> a, err |-> "ok"]
  ELSE [host |-> SubSeq(a, 1, (CHOOSE i \in Colons(a) : TRUE) - 1), err |-> "ok"]

RECURSIVE extractHostsFromKeepingDuplicates(_, _)
\* Faulty variant of extractHostsFrom: a host is added without the search
\* for it among the hosts found so far.
extractHostsFromKeepingDuplicates(addrs, res) ==
  IF addrs = <<>> THEN [hosts |-> res, err |-> "ok"]
  ELSE LET h == SplitHostPort(Head(addrs))
       IN IF h.err # "ok" THEN [hosts |-> res, err |-> "panic"]
          ELSE extractHostsFromKeepingDuplicates(Tail(addrs), Append(res, h.host))

RECURSIVE extractHostsFrom(_, _)
\* The loop of extractHosts over the addresses left, res being the hosts
\* found so far.
extractHostsFrom(addrs, res) ==
  IF addrs = <<>> THEN [hosts |-> res, err |-> "ok"]
  ELSE LET h == SplitHostPort(Head(addrs))
           found == \E i \in 1..Len(res) : res[i] = h.host
       IN IF h.err # "ok" THEN [hosts |-> res, err |-> "panic"]
          ELSE extractHostsFrom(Tail(addrs), IF found THEN res ELSE Append(res, h.host))

\* extractHosts: the hosts of the addresses, each once, in the order of
\* their first occurrence; it panics on an address that does not parse.
extractHosts(addrs) == extractHostsFrom(addrs, <<>>)

(***************************************************************************)
(* CertificateBundle: the workflows.  Each returns the bundle, the         *)
(* context, the error, and where it stopped: the phase and the index in    *)
(* SlotOrder of the slot whose operation failed (0 outside the slots).     *)
(***************************************************************************)
Out(b, ctx, err, phase, slot) ==
  [b |-> b, ctx |-> ctx, err |-> err, phase |-> phase, slot |-> slot]

\* Faulty variant of ServiceArgs: the two lifetimes are passed in each
\* other's place.
ServiceArgsLifetimesSwapped(s, rpcAddrs, sqlAddrs, httpAddrs) ==
  [certLife |-> defaultCALifetime,
   caLife |-> defaultCertLifetime,
   cn |-> IF s = "AdminUIService" THEN httpAddrs[1] ELSE NodeUser,
   hostnames |-> CASE s = "InterNode" -> rpcAddrs
                   [] s = "UserAuth" -> <<>>
                   [] s = "SQLService" -> sqlAddrs
                   [] s = "RPCService" -> rpcAddrs
                   [] s = "AdminUIService" -> httpAddrs,
   dual |-> s \in {"InterNode", "UserAuth"}]

\* The arguments InitializeFromConfig and rotateGeneratedCerts pass for each
\* slot.
ServiceArgs(s, rpcAddrs, sqlAddrs, httpAddrs) ==
  [certLife |-> defaultCertLifetime,
   caLife |-> defaultCALifetime,
   cn |-> IF s = "AdminUIService" THEN httpAddrs[1] ELSE NodeUser,
   hostnames |-> CASE s = "InterNode" -> rpcAddrs
                   [] s = "UserAuth" -> <<>>
                   [] s = "SQLService" -> sqlAddrs
                   [] s = "RPCService" -> rpcAddrs
                   [] s = "AdminUIService" -> httpAddrs,
   dual |-> s \in {"InterNode", "UserAuth"}]

\* The three extractHosts calls of a workflow.
ConfigHosts(c) ==
  LET rpc == extractHosts(<<c.Addr, c.AdvertiseAddr>>)
      sql == IF c.SplitListenSQL THEN extractHosts(<<c.SQLAddr, c.SQLAdvertiseAddr>>)
             ELSE rpc
      http == extractHosts(<<c.HTTPAddr, c.HTTPAdvertiseAddr>>)
  IN [rpcAddrs |-> rpc.hosts, sqlAddrs |-> sql.hosts, httpAddrs |-> http.hosts,
      err |-> IF rpc.err # "ok" \/ sql.err # "ok" \/ http.err # "ok"
              THEN "panic" ELSE "ok"]

RECURSIVE loadCAFromUntilAbsent(_, _, _)
\* Faulty variant of loadCAFrom: the first slot without a CA certificate ends
\* the collection, and the slots after it are left empty.
loadCAFromUntilAbsent(b, ctx, i) ==
  IF i > Len(SlotOrder) THEN Out(b, ctx, "ok", "done", 0)
  ELSE LET s == SlotOrder[i]
           r == loadCACertAndKeyIfExists(b[s], ctx, s)
           b1 == [b EXCEPT ![s] = r.sb]
       IN IF r.err # "ok" THEN Out(b1, r.ctx, r.err, "collect", i)
          ELSE IF r.sb.CACertificate = Nil THEN Out(b1, r.ctx, "ok", "done", 0)
          ELSE loadCAFromUntilAbsent(b1, r.ctx, i + 1)

RECURSIVE loadCAFrom(_, _, _)
\* The five loadCACertAndKeyIfExists calls of collectLocalCABundle from the
\* i-th on.
loadCAFrom(b, ctx, i) ==
  IF i > Len(SlotOrder) THEN Out(b, ctx, "ok", "done", 0)
  ELSE LET s == SlotOrder[i]
           r == loadCACertAndKeyIfExists(b[s], ctx, s)
           b1 == [b EXCEPT ![s] = r.sb]
       IN IF r.err # "ok" THEN Out(b1, r.ctx, r.err, "collect", i)
          ELSE loadCAFrom(b1, r.ctx, i + 1)

\* collectLocalCABundle
collectLocalCABundle(ctx) == loadCAFrom(EmptyBundle, ctx, 1)

RECURSIVE rotateFromKeepGoing(_, _, _, _)
\* Faulty variant of rotateFrom: after a slot fails the slots after it are
\* rotated all the same, and the first error is returned at the end.
rotateFromKeepGoing(b, ctx, h, i) ==
  IF i > Len(SlotOrder) THEN Out(b, ctx, "ok", "done", 0)
  ELSE LET s == SlotOrder[i]
           r == rotateServiceCert(
                  b[s], ctx, s, ServiceArgs(s, h.rpcAddrs, h.sqlAddrs, h.httpAddrs))
           rest == rotateFromKeepGoing(b, r.ctx, h, i + 1)
       IN IF b[s].CACertificate = Nil THEN rotateFromKeepGoing(b, ctx, h, i + 1)
          ELSE IF r.err # "ok" THEN Out(b, rest.ctx, r.err, "rotate", i)
          ELSE rest

RECURSIVE rotateFrom(_, _, _, _)
\* The five guarded rotateServiceCert calls of rotateGeneratedCerts from the
\* i-th on: a slot whose CA certificate is nil is passed over.
rotateFrom(b, ctx, h, i) ==
  IF i > Len(SlotOrder) THEN Out(b, ctx, "ok", "done", 0)
  ELSE LET s == SlotOrder[i]
           r == rotateServiceCert(
                  b[s], ctx, s, ServiceArgs(s, h.rpcAddrs, h.sqlAddrs, h.httpAddrs))
       IN IF b[s].CACertificate = Nil THEN rotateFrom(b, ctx, h, i + 1)
          ELSE IF r.err # "ok" THEN Out(b, r.ctx, r.err, "rotate", i)
          ELSE rotateFrom(b, r.ctx, h, i + 1)

\* rotateGeneratedCerts
rotateGeneratedCerts(ctx, c) ==
  LET l == collectLocalCABundle(ctx)
      h == ConfigHosts(c)
  IN IF l.err # "ok" THEN l
     ELSE IF h.err # "ok" THEN Out(l.b, l.ctx, "panic", "extractHosts", 0)
     ELSE rotateFrom(l.b, l.ctx, h, 1)

RECURSIVE loadOrCreateFromKeepGoing(_, _, _, _)
\* Faulty variant of loadOrCreateFrom: after a slot fails the slots after it
\* are loaded or created all the same, and the first error is returned at
\* the end.
loadOrCreateFromKeepGoing(b, ctx, h, i) ==
  IF i > Len(SlotOrder) THEN Out(b, ctx, "ok", "done", 0)
  ELSE LET s == SlotOrder[i]
           r == loadOrCreateServiceCertificates(
                  b[s], ctx, s, ServiceArgs(s, h.rpcAddrs, h.sqlAddrs, h.httpAddrs))
           b1 == [b EXCEPT ![s] = r.sb]
           rest == loadOrCreateFromKeepGoing(b1, r.ctx, h, i + 1)
       IN IF r.err # "ok" THEN Out(rest.b, rest.ctx, r.err, "loadOrCreate", i)
          ELSE rest

RECURSIVE loadOrCreateFrom(_, _, _, _)
\* The five loadOrCreateServiceCertificates calls of InitializeFromConfig
\* from the i-th on; the first error returns.
loadOrCreateFrom(b, ctx, h, i) ==
  IF i > Len(SlotOrder) THEN Out(b, ctx, "ok", "done", 0)
  ELSE LET s == SlotOrder[i]
           r == loadOrCreateServiceCertificates(
                  b[s], ctx, s, ServiceArgs(s, h.rpcAddrs, h.sqlAddrs, h.httpAddrs))
           b1 == [b EXCEPT ![s] = r.sb]
       IN IF r.err # "ok" THEN Out(b1, r.ctx, r.err, "loadOrCreate", i)
          ELSE loadOrCreateFrom(b1, r.ctx, h, i + 1)

\* Faulty variant of InitializeFromConfig: a node that is initialized
\* already is not refused, its host certificates are issued again.
InitializeFromConfigReissuing(b, ctx, c) ==
  LET c0 == [ctx EXCEPT !.reads = @ \cup {Path("InterNode", "hostCert")}]
      h == ConfigHosts(c)
  IN IF FileExists(ctx, Path("InterNode", "hostCert")) THEN rotateGeneratedCerts(c0, c)
     ELSE IF h.err # "ok" THEN Out(b, c0, "panic", "extractHosts", 0)
     ELSE loadOrCreateFrom(b, c0, h, 1)

\* InitializeFromConfig
InitializeFromConfig(b, ctx, c) ==
  LET c0 == [ctx EXCEPT !.reads = @ \cup {Path("InterNode", "hostCert")}]
      h == ConfigHosts(c)
  IN IF FileExists(ctx, Path("InterNode", "hostCert"))
     THEN Out(b, c0, "AlreadyInitialized", "guard", 0)
     ELSE IF h.err # "ok" THEN Out(b, c0, "panic", "extractHosts", 0)
     ELSE loadOrCreateFrom(b, c0, h, 1)

RECURSIVE writeCAFrom(_, _, _)
\* The five writeCAOrFail calls of InitializeNodeFromBundle from the i-th on.
writeCAFrom(b, ctx, i) ==
  IF i > Len(SlotOrder) THEN Out(b, ctx, "ok", "done", 0)
  ELSE LET r == writeCAOrFail(b[SlotOrder[i]], ctx, SlotOrder[i])
       IN IF r.err # "ok" THEN Out(b, r.ctx, r.err, "writeCA", i)
          ELSE writeCAFrom(b, r.ctx, i + 1)

\* Faulty variant of InitializeNodeFromBundle: the check for an InterNode
\* host certificate is left to InitializeFromConfig, after the CAs are
\* written.
InitializeNodeFromBundleUnguarded(b, ctx, c) ==
  LET w == writeCAFrom(b, ctx, 1)
  IN IF w.err # "ok" THEN w
     ELSE InitializeFromConfig(b, w.ctx, c)

\* Faulty variant of InitializeNodeFromBundle: a failed write of a CA is
\* passed over, and the host certificates are created all the same.
InitializeNodeFromBundleIgnoringCAErrors(b, ctx, c) ==
  LET c0 == [ctx EXCEPT !.reads = @ \cup {Path("InterNode", "hostCert")}]
      w == writeCAFrom(b, c0, 1)
  IN IF FileExists(ctx, Path("InterNode", "hostCert"))
     THEN Out(b, c0, "AlreadyInitialized", "guard", 0)
     ELSE InitializeFromConfig(b, w.ctx, c)

\* InitializeNodeFromBundle
InitializeNodeFromBundle(b, ctx, c) ==
  LET c0 == [ctx EXCEPT !.reads = @ \cup {Path("InterNode", "hostCert")}]
      w == writeCAFrom(b, c0, 1)
  IN IF FileExists(ctx, Path("InterNode", "hostCert"))
     THEN Out(b, c0, "AlreadyInitialized", "guard", 0)
     ELSE IF w.err # "ok" THEN w
     ELSE InitializeFromConfig(b, w.ctx, c)

(***************************************************************************)
(* Inputs: the process configuration, the bundle a joining node is handed, *)
(* and what an operator puts in the certs directory by hand.               *)
(***************************************************************************)
MkConfig(addr, adv, split, sql, sqlAdv, http, httpAdv) ==
  [Addr |-> addr, AdvertiseAddr |-> adv, SplitListenSQL |-> split,
   SQLAddr |-> sql, SQLAdvertiseAddr |-> sqlAdv,
   HTTPAddr |-> http, HTTPAdvertiseAddr |-> httpAdv]

\* The validated configuration of the node: a separate SQL listener, and an
\* advertised RPC address without a port.
Configs ==
  { MkConfig(<<"a", ":", "1">>, <<"b">>, TRUE,
             <<"b", ":", "1">>, <<"a", ":", "2">>, <<"b", ":", "1">>, <<"b", ":", "2">>) }

\* Material issued on another node: the CA pair of slot s, and a host pair
\* signed by it.
ForeignCA(s) == -SlotIndex(s)

ForeignHost(s) == -(Len(SlotOrder) + SlotIndex(s))

ForeignFile(f) ==
  CASE f.kind = "caCert" -> EncodeToMemory(CACertPEM(ForeignCA(f.slot), defaultCALifetime))
    [] f.kind = "caKey" -> EncodeToMemory(CAKeyPEM(ForeignCA(f.slot)))
    [] f.kind = "hostCert" ->
         EncodeToMemory(HostCertPEM(ForeignHost(f.slot), ForeignCA(f.slot),
                                    defaultCertLifetime, NodeUser, <<>>, FALSE))
    [] f.kind = "hostKey" -> EncodeToMemory(HostKeyPEM(ForeignHost(f.slot)))

\* The certs directory of the node a bundle comes from, which holds its own
\* CA pair and host pair in the slots in have.
OriginDir(have) == [f \in Files |-> IF f.slot \in have THEN ForeignFile(f) ELSE Nil]

\* The bundle handed to a joining node: what collectLocalCABundle returns on
\* the node it comes from.
SuppliedBundle(have) ==
  collectLocalCABundle(
    NewCtx(OriginDir(have), DiskSerials(OriginDir(have)), NoFault)).b

\* The nodes a bundle is taken from: one that holds every CA, none, all but
\* one, and one only.
OriginHaves == {Slots, {}, Slots \ {"SQLService"}, {"RPCService"}}

SuppliedBundles == {SuppliedBundle(have) : have \in OriginHaves}

(***************************************************************************)
(* State.                                                                  *)
(***************************************************************************)
VARIABLES
  disk,         \* the certs directory: the content of every file
  before,       \* the directory as the last step found it
  result,       \* what the last step was and how it ended
  prev,         \* what the step before it was and how it ended
  bundle,       \* the CertificateBundle in memory when the last call ended
  config,       \* the configuration of the process
  calls,        \* workflow calls made
  faulted,      \* workflow calls in which the filesystem failed
  operatorOps,  \* files placed or removed by hand
  addressList,  \* the addresses last given to extractHosts
  extracted,    \* what extractHosts returned for them
  mode,         \* testfilter: the mode of the run
  stdin,        \* testfilter: the lines scanned so far
  stdout,       \* testfilter: the lines written so far
  scopes,       \* testfilter: the map m of the open tests
  parsed,       \* testfilter: n, the number of JSON lines parsed
  passFailLine, \* testfilter: the first line of plain test output seen
  filterErr     \* testfilter: "scanning", or what filter returned

nodeVars == <<disk, before, result, prev, bundle, config, calls, faulted, operatorOps>>

hostVars == <<addressList, extracted>>

filterVars == <<mode, stdin, stdout, scopes, parsed, passFailLine, filterErr>>

vars == <<nodeVars, hostVars, filterVars>>

Summary(r) == [op |-> r.op, err |-> r.err, phase |-> r.phase, slot |-> r.slot,
               fromEmpty |-> r.fromEmpty, clean |-> r.clean]

NoResult ==
  [op |-> "none", err |-> "ok", phase |-> "none", slot |-> 0, writes |-> <<>>,
   reads |-> {}, fault |-> NoFault, supplied |-> EmptyBundle, fromEmpty |-> TRUE,
   clean |-> "ok"]

\* extractHosts has not been called.
NotExtracted == [hosts |-> <<>>, err |-> "none"]

HostsIdle == addressList = <<>> /\ extracted = NotExtracted

\* testfilter is not running.
FilterIdle ==
  /\ mode = "none"
  /\ stdin = <<>>
  /\ stdout = <<>>
  /\ scopes = <<>>
  /\ parsed = 0
  /\ passFailLine = <<>>
  /\ filterErr = "none"

\* A node with an empty certs directory.
NodeInit ==
  /\ disk = EmptyDir
  /\ before = EmptyDir
  /\ result = NoResult
  /\ prev = Summary(NoResult)
  /\ bundle = EmptyBundle
  /\ calls = 0
  /\ operatorOps = 0

Init ==
  /\ NodeInit
  /\ faulted = 0
  /\ config \in Configs
  /\ HostsIdle
  /\ FilterIdle

\* The failures a call can run into: it runs as the call without failure
\* does, ctx being the context that one ends with, up to the first access to
\* the failing file.  In the actions, sound is that call and out the call
\* under the failure chosen.
Hittable(ctx) ==
  IF faulted < MaxFaults
  THEN {NoFault} \cup {ReadFault(f) : f \in ctx.reads} \cup {WriteFault(f) : f \in ctx.tried}
  ELSE {NoFault}

\* A workflow call returned out (or the process died in it).  A failure of
\* a file the call never touches is no failure of the call.  clean is the
\* error the same call returns when the filesystem does not fail.
Returned(op, out, clean, supplied) ==
  /\ out.ctx.hit = (out.ctx.fault # NoFault)
  /\ faulted' = IF out.ctx.hit THEN faulted + 1 ELSE faulted
  /\ disk' = out.ctx.disk
  /\ before' = disk
  /\ result' = [op |-> op, err |-> out.err, phase |-> out.phase, slot |-> out.slot,
                writes |-> out.ctx.writes, reads |-> out.ctx.reads,
                fault |-> out.ctx.fault, supplied |-> supplied,
                fromEmpty |-> (disk = EmptyDir), clean |-> clean]
  /\ prev' = Summary(result)
  /\ bundle' = out.b
  /\ calls' = calls + 1
  /\ UNCHANGED <<config, operatorOps, hostVars, filterVars>>

\* Node startup: InitializeFromConfig on a new bundle.
Bootstrap ==
  /\ calls + operatorOps < MaxSteps
  /\ LET run(fault) == InitializeFromConfig(
                         EmptyBundle, NewCtx(disk, DiskSerials(disk), fault), config)
     IN \E sound \in {run(NoFault)} : \E fault \in Hittable(sound.ctx) :
          \E out \in {IF fault = NoFault THEN sound ELSE run(fault)} :
            Returned("bootstrap", out, sound.err, EmptyBundle)

\* Node join: InitializeNodeFromBundle on the bundle received.
ReceiveBundle ==
  /\ calls + operatorOps < MaxSteps
  /\ \E b \in SuppliedBundles :
       LET run(fault) == InitializeNodeFromBundle(
                           b, NewCtx(disk, DiskSerials(disk), fault), config)
       IN \E sound \in {run(NoFault)} : \E fault \in Hittable(sound.ctx) :
            \E out \in {IF fault = NoFault THEN sound ELSE run(fault)} :
              Returned("receiveBundle", out, sound.err, b)

\* collectLocalCABundle
CollectLocalBundle ==
  /\ calls + operatorOps < MaxSteps
  /\ LET run(fault) == collectLocalCABundle(NewCtx(disk, DiskSerials(disk), fault))
     IN \E sound \in {run(NoFault)} : \E fault \in Hittable(sound.ctx) :
          \E out \in {IF fault = NoFault THEN sound ELSE run(fault)} :
            Returned("collectLocalBundle", out, sound.err, EmptyBundle)

\* The rotate command: rotateGeneratedCerts.
Rotate ==
  /\ calls + operatorOps < MaxSteps
  /\ LET run(fault) == rotateGeneratedCerts(NewCtx(disk, DiskSerials(disk), fault), config)
     IN \E sound \in {run(NoFault)} : \E fault \in Hittable(sound.ctx) :
          \E out \in {IF fault = NoFault THEN sound ELSE run(fault)} :
            Returned("rotate", out, sound.err, EmptyBundle)

\* A step of the operator, outside the program.
ByHand(op, d) ==
  /\ disk' = d
  /\ before' = disk
  /\ result' = [NoResult EXCEPT !.op = op, !.fromEmpty = (disk = EmptyDir)]
  /\ prev' = Summary(result)
  /\ operatorOps' = operatorOps + 1
  /\ UNCHANGED <<bundle, config, calls, faulted, hostVars, filterVars>>

\* An operator copies a file of another node into the directory.
OperatorPlace ==
  /\ operatorOps < MaxOperatorOps
  /\ calls + operatorOps < MaxSteps
  /\ \E f \in Files :
       /\ disk[f] = Nil
       /\ ByHand("place", [disk EXCEPT ![f] = ForeignFile(f)])

\* An operator removes a file from the directory.
OperatorRemove ==
  /\ operatorOps < MaxOperatorOps
  /\ calls + operatorOps < MaxSteps
  /\ \E f \in Files :
       /\ disk[f] # Nil
       /\ ByHand("remove", [disk EXCEPT ![f] = Nil])

Workflow == Bootstrap \/ ReceiveBundle \/ CollectLocalBundle \/ Rotate

Next == Workflow \/ OperatorPlace \/ OperatorRemove

\* The workflows and the operator, on a directory that starts empty.
Spec == Init /\ [][Next]_vars

\* The workflows alone, on a directory that starts empty.
SpecWorkflows == Init /\ [][Workflow]_vars

(***************************************************************************)
(* The operations on one slot, each called by itself on the slot of the    *)
(* bundle in memory.                                                       *)
(***************************************************************************)
\* The serials of the material a bundle holds.
BundleSerials(b) ==
  UNION {SerialsOf(b[s].CACertificate) \cup SerialsOf(b[s].CAKey)
           \cup SerialsOf(b[s].HostCertificate) \cup SerialsOf(b[s].HostKey) : s \in Slots}

\* The context of an operation on a slot: the directory, and the serials of
\* the material on disk and in memory.
SlotCtx(fault) == NewCtx(disk, DiskSerials(disk) \cup BundleSerials(bundle), fault)

\* An operation on slot s returned r.
SlotReturned(op, s, r, clean, supplied) ==
  /\ r.ctx.hit = (r.ctx.fault # NoFault)
  /\ faulted' = IF r.ctx.hit THEN faulted + 1 ELSE faulted
  /\ disk' = r.ctx.disk
  /\ before' = disk
  /\ result' = [op |-> op, err |-> r.err, phase |-> "slot", slot |-> SlotIndex(s),
                writes |-> r.ctx.writes, reads |-> r.ctx.reads,
                fault |-> r.ctx.fault, supplied |-> supplied,
                fromEmpty |-> (disk = EmptyDir), clean |-> clean]
  /\ prev' = Summary(result)
  /\ bundle' = [bundle EXCEPT ![s] = r.sb]
  /\ calls' = calls + 1
  /\ UNCHANGED <<config, operatorOps, hostVars, filterVars>>

\* The arguments of slot s under the configuration of the process.
ConfigArgs(s) ==
  LET h == ConfigHosts(config) IN ServiceArgs(s, h.rpcAddrs, h.sqlAddrs, h.httpAddrs)

\* loadOrCreateServiceCertificates on a slot, of the bundle in memory or of
\* a new bundle.
LoadOrCreate ==
  /\ calls < MaxSlotOps
  /\ \E s \in Slots : \E sb \in {bundle[s], EmptyService} :
       LET run(fault) == loadOrCreateServiceCertificates(
                           sb, SlotCtx(fault), s, ConfigArgs(s))
       IN \E sound \in {run(NoFault)} : \E fault \in Hittable(sound.ctx) :
            \E r \in {IF fault = NoFault THEN sound ELSE run(fault)} :
              SlotReturned("loadOrCreate", s, r, sound.err, EmptyBundle)

\* createServiceCA on a slot.
CreateCA ==
  /\ calls < MaxSlotOps
  /\ \E s \in Slots :
       LET run(fault) == createServiceCA(bundle[s], SlotCtx(fault), s, defaultCALifetime)
       IN \E sound \in {run(NoFault)} : \E fault \in Hittable(sound.ctx) :
            \E r \in {IF fault = NoFault THEN sound ELSE run(fault)} :
              SlotReturned("createCA", s, r, sound.err, EmptyBundle)

\* writeCAOrFail on a slot of a bundle received.
WriteCAOnly ==
  /\ calls < MaxSlotOps
  /\ \E s \in Slots : \E b \in SuppliedBundles :
       LET run(fault) == writeCAOrFail(b[s], SlotCtx(fault), s)
       IN \E sound \in {run(NoFault)} : \E fault \in Hittable(sound.ctx) :
            \E r \in {IF fault = NoFault THEN sound ELSE run(fault)} :
              SlotReturned("writeCAOnly", s, r, sound.err, b)

\* rotateServiceCert on a slot whose CA certificate is in memory.
RotateHostCert ==
  /\ calls < MaxSlotOps
  /\ \E s \in Slots :
       /\ bundle[s].CACertificate # Nil
       /\ LET run(fault) == rotateServiceCert(bundle[s], SlotCtx(fault), s, ConfigArgs(s))
          IN \E sound \in {run(NoFault)} : \E fault \in Hittable(sound.ctx) :
               \E r \in {IF fault = NoFault THEN sound ELSE run(fault)} :
                 SlotReturned("rotateHostCert", s, r, sound.err, EmptyBundle)

\* loadCACertAndKeyIfExists on a slot.
LoadCA ==
  /\ calls < MaxSlotOps
  /\ \E s \in Slots :
       LET run(fault) == loadCACertAndKeyIfExists(bundle[s], SlotCtx(fault), s)
       IN \E sound \in {run(NoFault)} : \E fault \in Hittable(sound.ctx) :
            \E r \in {IF fault = NoFault THEN sound ELSE run(fault)} :
              SlotReturned("loadCA", s, r, sound.err, EmptyBundle)

SlotNext == LoadOrCreate \/ CreateCA \/ WriteCAOnly \/ RotateHostCert \/ LoadCA

\* The operations on single slots, in any order, on a directory that starts
\* empty.
SpecSlots == Init /\ [][SlotNext]_vars

\* writeCAOrFail on single slots of a directory in which an operator places
\* and removes files.
WriteCAInTurn == calls + operatorOps < MaxSteps /\ WriteCAOnly

WriteCANext == WriteCAInTurn \/ OperatorPlace \/ OperatorRemove

SpecWriteCA == Init /\ [][WriteCANext]_vars

(***************************************************************************)
(* extractHosts by itself, and the workflows under configurations with an  *)
(* address that does not parse.                                            *)
(***************************************************************************)
\* An address with two colons, which SplitHostPort rejects.
BadAddress == <<"a", ":", "1", ":", "2">>

\* The addresses tried: two hosts, with different ports and without a port,
\* and the address that does not parse.
Addresses ==
  { <<"a", ":", "1">>, <<"a", ":", "2">>, <<"b", ":", "1">>, <<"b">>, BadAddress }

AddressLists == UNION {[1..k -> Addresses] : k \in 0..MaxAddrs}

\* A call of extractHosts.
ExtractHosts ==
  /\ \E l \in AddressLists :
       /\ addressList' = l
       /\ extracted' = extractHosts(l)
  /\ UNCHANGED <<nodeVars, filterVars>>

SpecExtractHosts == Init /\ [][ExtractHosts]_vars

\* The configuration of the node, and the same with one address that does not
\* parse: the RPC address, the advertised RPC address, the advertised SQL
\* address, the SQL address of a node without a separate SQL listener, and
\* the HTTP address.
AddressConfigs ==
  LET ok == <<"a", ":", "1">>
      adv == <<"b">>
  IN Configs \cup
     { MkConfig(BadAddress, adv, TRUE, ok, ok, ok, ok),
       MkConfig(ok, BadAddress, TRUE, ok, ok, ok, ok),
       MkConfig(ok, adv, TRUE, ok, BadAddress, ok, ok),
       MkConfig(ok, adv, FALSE, BadAddress, ok, ok, ok),
       MkConfig(ok, adv, TRUE, ok, ok, BadAddress, ok) }

\* The filesystem does not fail here.
InitAddresses ==
  /\ NodeInit
  /\ faulted = MaxFaults
  /\ config \in AddressConfigs
  /\ HostsIdle
  /\ FilterIdle

\* The workflows, under any of these configurations.
SpecAddresses == InitAddresses /\ [][Workflow]_vars

(***************************************************************************)
(* testfilter (pkg/cmd/testfilter/main.go): filter reads the lines of a    *)
(* test2json stream and writes some of them, by its mode.  A line is a     *)
(* record: its kind (an event, text that is no JSON, or a line in braces   *)
(* that does not parse), its place in the input, and the fields of the     *)
(* event.  A test name and an output are sequences of their parts.         *)
(***************************************************************************)
Modes == {"strip", "omit", "convert"}

Line(kind, seq, action, pkg, test, output) ==
  [kind |-> kind, seq |-> seq, Action |-> action, Package |-> pkg, Test |-> test,
   Output |-> output]

\* The empty line that Fprintln adds after a buffer, and the raw output that
\* the convert mode writes.
Blank == Line("blank", 0, "", "", <<>>, <<>>)

Raw(ev) == Line("output", ev.seq, "", "", <<>>, ev.Output)

PackageLevel == <<"PackageLevel">>

helpMessage == "Check full_output.txt"

\* The tests of the input: package p itself, a test of it and a sub-test of
\* that test, and a test of package q.
TestKeys == { <<"p", <<>> >>, <<"p", <<"T">> >>, <<"p", <<"T", "/", "s">> >>, <<"q", <<"T">> >> }

\* The actions of the input: five that filter knows, and one it does not.
Actions == {"run", "output", "pass", "skip", "fail", "bogus"}

\* The lines that can come next, as line seq of the input.
InputLines(seq) ==
  {Line("text", seq, "", "", <<>>, o) : o \in {<<"ok">>, <<"PASS">>}}
    \cup {Line("badjson", seq, "", "", <<>>, <<>>)}
    \cup {Line("event", seq, a, k[1], k[2], IF a = "output" THEN <<"o">> ELSE <<>>) :
            a \in Actions, k \in TestKeys}

\* strings.Contains
Contains(text, part) == \E i \in 1..Len(text) : text[i] = part

\* The orders in which a range over a map can visit the keys S.
Orders(S) ==
  {o \in [1..Cardinality(S) -> S] : \A i, j \in 1..Cardinality(S) : i # j => o[i] # o[j]}

\* m[key] = buf and delete(m, key)
Put(m, key, buf) == [k \in DOMAIN m \cup {key} |-> IF k = key THEN buf ELSE m[k]]

Delete(m, key) == [k \in DOMAIN m \ {key} |-> m[k]]

\* The state of filter: its mode and local variables, and what it wrote.
FilterState(md, o, m, n, pfl, err) ==
  [mode |-> md, out |-> o, m |-> m, n |-> n, passFailLine |-> pfl, err |-> err]

\* The skip event synthetized for a test that is open when its package
\* fails.
SynthSkip(ev, key) ==
  Line("event", ev.seq, "skip", ev.Package, key[2], <<"unfinished", helpMessage>>)

RECURSIVE dumpScopes(_, _, _, _, _)
\* The range over m when a package fails, in the order given: a test of the
\* package that is no sub-test is written with a skip event, and every test
\* of the package is deleted.  st.m and st.out, and the report of the names
\* of the tests written.
dumpScopes(st, ev, order, i, testReport) ==
  IF i > Len(order) THEN [st |-> st, testReport |-> testReport]
  ELSE LET key == order[i]
           buf == st.m[key]
           written == [st EXCEPT !.out = (@ \o Append(buf.buf, SynthSkip(ev, key)))
                                          \o <<Blank>>,
                                 !.m = Delete(@, key)]
           deleted == [st EXCEPT !.m = Delete(@, key)]
       IN IF ~Contains(key[2], "/")
          THEN dumpScopes(written, ev, order, i + 1, testReport \o key[2])
          ELSE dumpScopes(deleted, ev, order, i + 1, testReport)

\* The keys the range over m dumps when the package of ev fails.
DumpKeys(m, ev) == {k \in DOMAIN m : k[1] = ev.Package /\ k[2] # PackageLevel}

\* An event without a test name: it becomes an event of the pseudo-test
\* PackageLevel, which gets a run event first; a fail event dumps the open
\* tests of the package.  st, and the line made of the event.
packageLevel(st, ev0, order) ==
  LET ev1 == [ev0 EXCEPT !.Test = PackageLevel,
                         !.Output = IF ev0.Action = "fail" THEN Append(@, helpMessage) ELSE @]
      pkey == <<ev1.Package, PackageLevel>>
      fakeLine == [ev1 EXCEPT !.Action = "run", !.Output = <<>>]
      st1 == IF pkey \in DOMAIN st.m THEN st
             ELSE [st EXCEPT !.m = Put(@, pkey, [first |-> fakeLine, last |-> Blank,
                                                buf |-> <<fakeLine>>])]
      d == dumpScopes(st1, ev1, order, 1, <<>>)
      ev2 == IF Len(d.testReport) > 0
             THEN [ev1 EXCEPT !.Output = (@ \o <<"The following tests have not completed">>)
                                           \o d.testReport]
             ELSE ev1
  IN IF ev0.Action = "fail" THEN [st |-> d.st, line |-> ev2]
     ELSE [st |-> st1, line |-> ev1]

\* Faulty variant of bufferLine: in strip mode the buffer of a test that
\* passed or was skipped is written whole.
bufferLineKeepingOutput(st, line) ==
  LET key == <<line.Package, line.Test>>
      buf0 == IF key \in DOMAIN st.m THEN st.m[key]
              ELSE [first |-> line, last |-> Blank, buf |-> <<>>]
      buf == [buf0 EXCEPT !.buf = Append(@, line)]
  IN IF line.Action \in {"pass", "skip", "fail"}
     THEN [st EXCEPT !.m = Delete(@, key),
                     !.out = IF line.Action = "fail" \/ st.mode = "strip"
                             THEN @ \o buf.buf ELSE @]
     ELSE IF line.Action \in {"run", "pause", "cont", "bench", "output"}
     THEN [st EXCEPT !.m = Put(@, key, buf)]
     ELSE [st EXCEPT !.m = Put(@, key, buf), !.err = "unknown input"]

\* The end of the loop body: the line goes to the buffer of its test; an
\* event that ends the test deletes the buffer, and writes it when the test
\* failed, or its first and last line in strip mode.
bufferLine(st, line) ==
  LET key == <<line.Package, line.Test>>
      buf0 == IF key \in DOMAIN st.m THEN st.m[key]
              ELSE [first |-> line, last |-> Blank, buf |-> <<>>]
      buf == [buf0 EXCEPT !.buf = Append(@, line)]
  IN IF line.Action \in {"pass", "skip", "fail"}
     THEN [st EXCEPT !.m = Delete(@, key),
                     !.out = IF line.Action = "fail" THEN @ \o buf.buf
                             ELSE IF st.mode = "strip" THEN @ \o <<buf.first, line>>
                             ELSE @]
     ELSE IF line.Action \in {"run", "pause", "cont", "bench", "output"}
     THEN [st EXCEPT !.m = Put(@, key, buf)]
     ELSE [st EXCEPT !.m = Put(@, key, buf), !.err = "unknown input"]

\* The body of the loop of filter for one line; order is the order of the
\* range over m, should this line make a package fail.
scanLine(st, line, order) ==
  IF line.kind = "text"
  THEN [st EXCEPT !.passFailLine =
                    IF @ = <<>> /\ (Contains(line.Output, "PASS") \/ Contains(line.Output, "FAIL"))
                    THEN <<line>> ELSE @,
                  !.out = IF st.mode # "omit" THEN Append(@, line) ELSE @]
  ELSE IF line.kind = "badjson" THEN [st EXCEPT !.err = "unmarshal"]
  ELSE
    LET st1 == [st EXCEPT !.n = @ + 1]
        pl == packageLevel(st1, line, order)
    IN IF st.mode = "convert"
       THEN [st1 EXCEPT !.out = IF line.Action = "output" THEN Append(@, Raw(line)) ELSE @]
       ELSE IF line.Test = <<>>
       THEN IF st.mode = "omit" /\ line.Action # "fail" THEN st1
            ELSE bufferLine(pl.st, pl.line)
       ELSE bufferLine(st1, line)

RECURSIVE writeScopes(_, _, _, _)
\* The range over m at the end of the input, in the order given: every
\* buffer is written.
writeScopes(o, m, order, i) ==
  IF i > Len(order) THEN o
  ELSE writeScopes((o \o m[order[i]].buf) \o <<Blank>>, m, order, i + 1)

\* The end of filter, after the loop.
endOfInput(st, order) ==
  LET st1 == IF st.mode = "strip"
             THEN [st EXCEPT !.out = writeScopes(@, st.m, order, 1)] ELSE st
  IN IF st.mode # "convert" /\ st.n = 0 /\ st.passFailLine # <<>>
     THEN [st1 EXCEPT !.err = "not a single test was parsed"]
     ELSE [st1 EXCEPT !.err = "ok"]

\* filter starts, in one of the modes.
InitFilter ==
  /\ NodeInit
  /\ faulted = 0
  /\ config \in Configs
  /\ HostsIdle
  /\ mode \in Modes
  /\ stdin = <<>>
  /\ stdout = <<>>
  /\ scopes = <<>>
  /\ parsed = 0
  /\ passFailLine = <<>>
  /\ filterErr = "scanning"

Filtering == FilterState(mode, stdout, scopes, parsed, passFailLine, filterErr)

Filtered(st) ==
  /\ stdout' = st.out
  /\ scopes' = st.m
  /\ parsed' = st.n
  /\ passFailLine' = st.passFailLine
  /\ filterErr' = st.err
  /\ UNCHANGED <<mode, nodeVars, hostVars>>

\* scanner.Scan() returns a line, and the loop body runs.
Scan ==
  /\ filterErr = "scanning"
  /\ Len(stdin) < MaxLines
  /\ \E line \in InputLines(Len(stdin) + 1) :
       /\ stdin' = Append(stdin, line)
       /\ \E order \in Orders(DumpKeys(scopes, line)) :
            Filtered(scanLine(Filtering, line, order))

\* scanner.Scan() returns false: the input has ended.
Finish ==
  /\ filterErr = "scanning"
  /\ \E order \in Orders(DOMAIN scopes) : Filtered(endOfInput(Filtering, order))
  /\ UNCHANGED stdin

FilterNext == Scan \/ Finish

SpecFilter == InitFilter /\ [][FilterNext]_vars

(***************************************************************************)
(* Vocabulary of the properties.                                           *)
(***************************************************************************)
WorkflowOps == {"bootstrap", "receiveBundle", "collectLocalBundle", "rotate"}

NodeCertPath == Path("InterNode", "hostCert")

\* The files the last step wrote.
Written == {result.writes[i] : i \in 1..Len(result.writes)}

\* The files the last step read or wrote.
Touched == result.reads \cup Written

SlotFiles(s) == {Path(s, k) : k \in FileKinds}

HostFiles(s) == {Path(s, "hostCert"), Path(s, "hostKey")}

CAFiles(s) == {Path(s, "caCert"), Path(s, "caKey")}

\* File f of directory d holds one block.
OneBlock(d, f) == Len(d[f]) = 1

\* Slot s holds a CA pair and a host pair, the host certificate issued by
\* that CA.
Provisioned(d, s) ==
  /\ \A f \in SlotFiles(s) : OneBlock(d, f)
  /\ d[Path(s, "caCert")][1].isCA /\ d[Path(s, "caCert")][1].kind = "CERTIFICATE"
  /\ d[Path(s, "caKey")][1].serial = d[Path(s, "caCert")][1].serial
  /\ d[Path(s, "hostCert")][1].kind = "CERTIFICATE" /\ ~d[Path(s, "hostCert")][1].isCA
  /\ d[Path(s, "hostKey")][1].serial = d[Path(s, "hostCert")][1].serial
  /\ d[Path(s, "hostCert")][1].issuer = d[Path(s, "caCert")][1].serial

\* The host pair of slot s was issued in the last step, by the CA on disk.
NewHostPair(s) ==
  /\ OneBlock(disk, Path(s, "hostCert")) /\ OneBlock(disk, Path(s, "hostKey"))
  /\ disk[Path(s, "hostCert")] # before[Path(s, "hostCert")]
  /\ disk[Path(s, "hostKey")] # before[Path(s, "hostKey")]
  /\ disk[Path(s, "hostCert")][1].serial \notin DiskSerials(before)
  /\ disk[Path(s, "hostKey")][1].serial = disk[Path(s, "hostCert")][1].serial
  /\ OneBlock(disk, Path(s, "caCert"))
  /\ disk[Path(s, "hostCert")][1].issuer = disk[Path(s, "caCert")][1].serial

HoursOfDays(d) == d * 24

\* The directory holds the host certificate of slot s and nothing else.
OnlyHostCert(d, s) == \A f \in Files : (d[f] # Nil) <=> (f = Path(s, "hostCert"))

(***************************************************************************)
(* C1.  When the InterNode host certificate file exists, bootstrap and     *)
(* receiveBundle fail with AlreadyInitialized and write no file, whatever  *)
(* else the directory holds.                                               *)
(***************************************************************************)
C1_GuardFailsWithoutWrites ==
  (result.op \in {"bootstrap", "receiveBundle"} /\ before[NodeCertPath] # Nil)
    => /\ result.err = "AlreadyInitialized"
       /\ result.writes = <<>>
       /\ disk = before

\* receiveBundle of a bundle with CAs was refused by the guard, right after
\* bootstrap was, in a directory that is not a provisioned one.
C1_Witness ==
  /\ result.op = "receiveBundle" /\ result.err = "AlreadyInitialized"
  /\ result.supplied = SuppliedBundle(Slots)
  /\ prev.op = "bootstrap" /\ prev.err = "AlreadyInitialized"
  /\ disk[NodeCertPath] # Nil
  /\ disk[Path("InterNode", "caCert")] = Nil

(***************************************************************************)
(* C2.  Bootstrap on an empty directory without I/O failure succeeds and   *)
(* leaves in every slot one CA pair and one host pair, each written once,  *)
(* the CA with a lifetime of 10*366 days, the host certificate with one of *)
(* 5*366 days and issued by the CA of its own slot.                        *)
(***************************************************************************)
C2_BootstrapOfEmptyDirectory ==
  (result.op = "bootstrap" /\ result.fromEmpty /\ result.fault = NoFault)
    => /\ result.err = "ok"
       /\ \A s \in Slots :
            /\ Provisioned(disk, s)
            /\ disk[Path(s, "caCert")][1].life = HoursOfDays(10 * 366)
            /\ disk[Path(s, "hostCert")][1].life = HoursOfDays(5 * 366)
       /\ Len(result.writes) = Cardinality(Files)
       /\ Written = Files
       /\ \A s, t \in Slots :
            s # t => disk[Path(s, "caCert")][1].serial # disk[Path(t, "caCert")][1].serial

C2_Witness ==
  /\ result.op = "bootstrap" /\ result.fromEmpty /\ result.fault = NoFault
  /\ result.err = "ok"
  /\ \A f \in Files : disk[f] # Nil

(***************************************************************************)
(* C3.  A bootstrap that follows a successful bootstrap writes no file,    *)
(* and leaves every host certificate and host key as the first call        *)
(* produced it.                                                            *)
(***************************************************************************)
C3_SecondBootstrapWritesNothing ==
  (result.op = "bootstrap" /\ prev.op = "bootstrap" /\ prev.err = "ok")
    => /\ result.writes = <<>>
       /\ \A s \in Slots : \A f \in HostFiles(s) : disk[f] = before[f]

\* The second of two bootstraps, the first of which found the directory
\* empty and provisioned it.
C3_Witness ==
  /\ result.op = "bootstrap" /\ prev.op = "bootstrap" /\ prev.err = "ok"
  /\ prev.fromEmpty
  /\ \A s \in Slots : Provisioned(disk, s)

(***************************************************************************)
(* C4, as claimed.  When the host certificate of a slot is the only file   *)
(* of the directory, bootstrap fails with InconsistentPair and writes no   *)
(* file.                                                                   *)
(***************************************************************************)
C4_AsClaimed ==
  (result.op = "bootstrap" /\ result.fault = NoFault
     /\ \E s \in Slots : OnlyHostCert(before, s))
    => /\ result.err = "InconsistentPair"
       /\ result.writes = <<>>

(***************************************************************************)
(* C4, amended.  When the host certificate of a slot is the only file of   *)
(* the directory, bootstrap fails and writes no file of that slot or of a  *)
(* later one: for InterNode with AlreadyInitialized and no write at all,   *)
(* for any other slot with InconsistentPair raised at that slot, after the *)
(* slots before it were provisioned.                                       *)
(***************************************************************************)
C4_PartialPairStopsBootstrap ==
  \A s \in Slots :
    (result.op = "bootstrap" /\ result.fault = NoFault /\ OnlyHostCert(before, s))
      => /\ \A f \in Written : SlotIndex(f.slot) < SlotIndex(s)
         /\ \A f \in SlotFiles(s) : disk[f] = before[f]
         /\ IF s = "InterNode"
            THEN result.err = "AlreadyInitialized" /\ result.writes = <<>>
            ELSE /\ result.err = "InconsistentPair"
                 /\ result.slot = SlotIndex(s)
                 /\ \A t \in Slots : SlotIndex(t) < SlotIndex(s) => Provisioned(disk, t)

\* Bootstrap stopped at the lone host certificate of a slot after InterNode.
C4_Witness ==
  /\ result.op = "bootstrap" /\ result.fault = NoFault
  /\ OnlyHostCert(before, "SQLService")
  /\ result.err = "InconsistentPair"

(***************************************************************************)
(* C5, as claimed.  When a bootstrap failed at some slot, the next         *)
(* bootstrap, run without failure of the filesystem, succeeds and leaves   *)
(* the five slots provisioned.                                             *)
(***************************************************************************)
C5_RerunCompletes ==
  (result.op = "bootstrap" /\ result.fault = NoFault
     /\ prev.op = "bootstrap" /\ prev.err # "ok" /\ prev.slot > 0)
    => /\ result.err = "ok"
       /\ \A s \in Slots : Provisioned(disk, s)

(***************************************************************************)
(* C6.  Bootstrap visits the slots in the order of SlotOrder and stops at  *)
(* the first that fails: its writes follow that order, every slot before   *)
(* the failing one holds a host pair and keeps each file the call wrote,   *)
(* and no file of a slot after it is read or written; a bootstrap that     *)
(* succeeds leaves a host pair in all five.                                *)
(***************************************************************************)
C6_BootstrapInOrderStopsAtFirstFailure ==
  result.op = "bootstrap" =>
    /\ \A i, j \in 1..Len(result.writes) :
         i < j => SlotIndex(result.writes[i].slot) <= SlotIndex(result.writes[j].slot)
    /\ \A f \in Files \ Written : disk[f] = before[f]
    /\ \A f \in Written : disk[f] # Nil /\ before[f] = Nil
    /\ result.slot > 0 =>
         /\ result.err # "ok"
         /\ \A f \in Touched : SlotIndex(f.slot) <= result.slot
         /\ \A s \in Slots :
              SlotIndex(s) < result.slot => \A f \in HostFiles(s) : disk[f] # Nil
    /\ result.err = "ok" => \A s \in Slots : \A f \in HostFiles(s) : disk[f] # Nil

\* Bootstrap failed at the third slot, having provisioned the two before.
C6_Witness ==
  /\ result.op = "bootstrap" /\ result.err # "ok" /\ result.slot = 3
  /\ \A f \in SlotFiles("InterNode") \cup SlotFiles("UserAuth") : f \in Written
  /\ Provisioned(disk, "InterNode") /\ Provisioned(disk, "UserAuth")
  /\ \A s \in {"RPCService", "AdminUIService"} : \A f \in SlotFiles(s) : disk[f] = Nil

(***************************************************************************)
(* C7.  No workflow call, whether it succeeds or fails part-way, changes   *)
(* or removes a CA certificate file or a CA key file that exists.          *)
(***************************************************************************)
C7_CAMaterialNeverChanges ==
  result.op \in WorkflowOps =>
    \A s \in Slots : \A f \in CAFiles(s) : before[f] # Nil => disk[f] = before[f]

\* receiveBundle was refused the write of a CA that the directory holds
\* already, a CA other than the one supplied.
C7_Witness ==
  /\ result.op = "receiveBundle" /\ result.err = "AlreadyExists"
  /\ result.phase = "writeCA"
  /\ \E s \in Slots :
       /\ result.slot = SlotIndex(s)
       /\ before[Path(s, "caCert")] # Nil
       /\ result.supplied[s].CACertificate # Nil
       /\ result.supplied[s].CACertificate # before[Path(s, "caCert")]

(***************************************************************************)
(* C8.  A rotate that succeeds gives every slot whose CA certificate is on *)
(* disk a newly issued host certificate and host key, signed by that CA,   *)
(* and leaves every CA certificate and CA key as it was.                   *)
(***************************************************************************)
C8_RotateReplacesHostPairs ==
  (result.op = "rotate" /\ result.err = "ok") =>
    \A s \in Slots :
      /\ before[Path(s, "caCert")] # Nil => NewHostPair(s)
      /\ \A f \in CAFiles(s) : disk[f] = before[f]

\* A rotate succeeded right after a bootstrap provisioned an empty
\* directory.
C8_Witness ==
  /\ result.op = "rotate" /\ result.err = "ok"
  /\ prev.op = "bootstrap" /\ prev.err = "ok" /\ prev.fromEmpty
  /\ \A s \in Slots : Provisioned(before, s) /\ Provisioned(disk, s)

(***************************************************************************)
(* C9.  Rotate passes over a slot whose CA certificate is not on disk: it  *)
(* does not fail at that slot, writes none of its files, and goes on to    *)
(* rotate the slots after it.                                              *)
(***************************************************************************)
C9_RotateSkipsAbsentCA ==
  result.op = "rotate" =>
    /\ \A s \in Slots :
         (before[Path(s, "caCert")] = Nil /\ result.fault # ReadFault(Path(s, "caCert")))
           => /\ result.slot # SlotIndex(s)
              /\ \A f \in SlotFiles(s) : f \notin Written /\ disk[f] = before[f]
    /\ result.err = "ok" =>
         \A t \in Slots : before[Path(t, "caCert")] # Nil => HostFiles(t) \subseteq Written

\* A rotate succeeded that passed over a slot and rotated a later one.
C9_Witness ==
  /\ result.op = "rotate" /\ result.err = "ok"
  /\ \E s, t \in Slots :
       /\ SlotIndex(s) < SlotIndex(t)
       /\ before[Path(s, "caCert")] = Nil /\ before[Path(s, "hostCert")] # Nil
       /\ NewHostPair(t)

(***************************************************************************)
(* C10.  When rotate fails at a slot, every slot with a CA before it has   *)
(* its newly issued host pair, and the host certificate and host key of    *)
(* every slot after it are as they were; when it fails while loading the   *)
(* CAs, no file has changed.                                               *)
(***************************************************************************)
C10_RotateStopsAtFirstFailure ==
  (result.op = "rotate" /\ result.err # "ok") =>
    /\ result.phase = "rotate" =>
         \A s \in Slots :
           /\ (SlotIndex(s) < result.slot /\ before[Path(s, "caCert")] # Nil)
                => NewHostPair(s)
           /\ SlotIndex(s) > result.slot => \A f \in HostFiles(s) : disk[f] = before[f]
    /\ result.phase # "rotate" => disk = before

\* Rotate failed at the third slot, with two slots rotated and two not.
C10_Witness ==
  /\ result.op = "rotate" /\ result.err # "ok"
  /\ result.phase = "rotate" /\ result.slot = 3
  /\ NewHostPair("InterNode") /\ NewHostPair("UserAuth")
  /\ \A s \in {"RPCService", "AdminUIService"} :
       Provisioned(disk, s) /\ \A f \in HostFiles(s) : disk[f] = before[f]

(***************************************************************************)
(* C11.  When a rotate failed part-way only because the filesystem failed  *)
(* (without that failure it would have succeeded), also between writing a  *)
(* host certificate and writing its key, the next rotate, run without      *)
(* failure, succeeds and gives every slot whose CA certificate is on disk  *)
(* a newly issued host certificate and the host key of the same issuance.  *)
(***************************************************************************)
C11_RotateResumes ==
  (result.op = "rotate" /\ result.fault = NoFault
     /\ prev.op = "rotate" /\ prev.err # "ok" /\ prev.clean = "ok")
    => /\ result.err = "ok"
       /\ \A s \in Slots : before[Path(s, "caCert")] # Nil => NewHostPair(s)

\* The rotate before failed between the host certificate and the host key
\* of a slot, which this rotate found with a key that is not the
\* certificate's, and rotated.
C11_Witness ==
  /\ result.op = "rotate" /\ result.fault = NoFault /\ result.err = "ok"
  /\ prev.op = "rotate" /\ prev.err = "IOError" /\ prev.clean = "ok"
  /\ \E s \in Slots :
       /\ OneBlock(before, Path(s, "hostCert")) /\ OneBlock(before, Path(s, "hostKey"))
       /\ before[Path(s, "hostCert")][1].serial # before[Path(s, "hostKey")][1].serial
       /\ NewHostPair(s)

(***************************************************************************)
(* C12.  A receiveBundle of a bundle with the CA pair of every slot, into  *)
(* an empty directory, that succeeds leaves in every slot the CA           *)
(* certificate and CA key supplied, byte for byte, and a host pair whose   *)
(* certificate was issued by the CA supplied: no slot gets a CA generated  *)
(* on the node.                                                            *)
(***************************************************************************)
C12_ReceiveBundleUsesSuppliedCAs ==
  (result.op = "receiveBundle" /\ result.fromEmpty /\ result.err = "ok"
     /\ \A s \in Slots : result.supplied[s].CACertificate # Nil
                          /\ result.supplied[s].CAKey # Nil)
    => \A s \in Slots :
         /\ disk[Path(s, "caCert")] = result.supplied[s].CACertificate
         /\ disk[Path(s, "caKey")] = result.supplied[s].CAKey
         /\ Provisioned(disk, s)
         /\ disk[Path(s, "hostCert")][1].issuer \in SerialsOf(result.supplied[s].CACertificate)
         /\ disk[Path(s, "hostCert")][1].serial
              \notin DiskSerials(before) \cup SerialsOf(result.supplied[s].CACertificate)

\* receiveBundle of five CA pairs succeeded on an empty directory.
C12_Witness ==
  /\ result.op = "receiveBundle" /\ result.fromEmpty /\ result.err = "ok"
  /\ result.supplied = SuppliedBundle(Slots)
  /\ \A s \in Slots : result.supplied[s].CACertificate # Nil
  /\ \A f \in Files : disk[f] # Nil

(***************************************************************************)
(* C13, as claimed.  A receiveBundle that follows a receiveBundle that     *)
(* succeeded fails with AlreadyExists, raised by the write of a CA, and    *)
(* changes no file.                                                        *)
(***************************************************************************)
C13_AsClaimed ==
  (result.op = "receiveBundle" /\ prev.op = "receiveBundle" /\ prev.err = "ok")
    => /\ result.err = "AlreadyExists"
       /\ result.phase = "writeCA"
       /\ disk = before

(***************************************************************************)
(* C13, amended.  A receiveBundle that follows a receiveBundle that        *)
(* succeeded fails with AlreadyInitialized, raised by the check for the    *)
(* InterNode host certificate before any CA is written, and changes no     *)
(* file.                                                                   *)
(***************************************************************************)
C13_SecondReceiveBundleRefused ==
  (result.op = "receiveBundle" /\ prev.op = "receiveBundle" /\ prev.err = "ok")
    => /\ result.err = "AlreadyInitialized"
       /\ result.phase = "guard"
       /\ result.writes = <<>>
       /\ disk = before

\* The second of two receiveBundle calls with five CA pairs, the first of
\* which found the directory empty.
C13_Witness ==
  /\ result.op = "receiveBundle" /\ prev.op = "receiveBundle" /\ prev.err = "ok"
  /\ prev.fromEmpty
  /\ result.supplied = SuppliedBundle(Slots)
  /\ \A s \in Slots : disk[Path(s, "caCert")] = result.supplied[s].CACertificate

(***************************************************************************)
(* C14.  collectLocalBundle writes no file and generates nothing: what it  *)
(* returns is read from the CA files.  A slot whose CA certificate is not  *)
(* found is no error and has empty CA fields in the bundle returned, and   *)
(* no slot of that bundle holds a host certificate or a host key, whatever *)
(* the directory holds.                                                    *)
(***************************************************************************)
C14_CollectReadsCAsOnly ==
  result.op = "collectLocalBundle" =>
    /\ result.writes = <<>>
    /\ disk = before
    /\ \A f \in result.reads : f.kind \in {"caCert", "caKey"}
    /\ \A s \in Slots :
         /\ bundle[s].HostCertificate = Nil /\ bundle[s].HostKey = Nil
         /\ bundle[s].CACertificate \in {Nil, before[Path(s, "caCert")]}
         /\ bundle[s].CAKey \in {Nil, before[Path(s, "caKey")]}
         /\ (before[Path(s, "caCert")] = Nil /\ result.fault # ReadFault(Path(s, "caCert")))
              => /\ result.slot # SlotIndex(s)
                 /\ bundle[s].CACertificate = Nil /\ bundle[s].CAKey = Nil
    /\ result.err = "ok" =>
         \A s \in Slots : bundle[s].CACertificate = before[Path(s, "caCert")]

\* collectLocalBundle succeeded on a directory with a slot that holds a host
\* pair and no CA certificate, and a later slot whose CA it returned.
C14_Witness ==
  /\ result.op = "collectLocalBundle" /\ result.err = "ok"
  /\ \E s, t \in Slots :
       /\ SlotIndex(s) < SlotIndex(t)
       /\ before[Path(s, "caCert")] = Nil
       /\ before[Path(s, "hostCert")] # Nil /\ before[Path(s, "hostKey")] # Nil
       /\ bundle[t].CACertificate # Nil /\ bundle[t].CAKey # Nil

(***************************************************************************)
(* C15, as claimed.  When receiveBundle succeeds on an empty directory     *)
(* with the bundle collectLocalBundle returned on another node, every slot *)
(* holds the CA certificate and CA key that node holds for it, and no host *)
(* certificate or host key of that node.                                   *)
(***************************************************************************)
C15_AsClaimed ==
  \A have \in OriginHaves :
    (result.op = "receiveBundle" /\ result.fromEmpty /\ result.err = "ok"
       /\ result.supplied = SuppliedBundle(have))
      => \A s \in Slots :
           /\ \A f \in CAFiles(s) : disk[f] = OriginDir(have)[f]
           /\ \A f \in HostFiles(s) :
                SerialsOf(OriginDir(have)[f]) \cap DiskSerials(disk) = {}

(***************************************************************************)
(* C15, amended.  When receiveBundle succeeds on an empty directory with   *)
(* the bundle collectLocalBundle returned on another node, every slot      *)
(* whose CA that node holds has that node's CA certificate and CA key,     *)
(* every other slot has a CA generated on the receiving node, and no host  *)
(* certificate or host key of the other node is on disk or in the bundle.  *)
(***************************************************************************)
C15_CollectThenReceive ==
  \A have \in OriginHaves :
    (result.op = "receiveBundle" /\ result.fromEmpty /\ result.err = "ok"
       /\ result.supplied = SuppliedBundle(have))
      => \A s \in Slots :
           /\ s \in have => \A f \in CAFiles(s) : disk[f] = OriginDir(have)[f]
           /\ s \notin have =>
                \A f \in CAFiles(s) :
                  /\ OneBlock(disk, f)
                  /\ disk[f][1].serial \notin DiskSerials(OriginDir(Slots))
           /\ \A f \in HostFiles(s) :
                /\ SerialsOf(OriginDir(Slots)[f]) \cap DiskSerials(disk) = {}
                /\ SerialsOf(OriginDir(Slots)[f])
                     \cap (SerialsOf(bundle[s].HostCertificate)
                            \cup SerialsOf(bundle[s].HostKey)) = {}
                /\ SerialsOf(OriginDir(Slots)[f])
                     \cap (SerialsOf(result.supplied[s].HostCertificate)
                            \cup SerialsOf(result.supplied[s].HostKey)) = {}

\* receiveBundle succeeded on an empty directory with the bundle of a node
\* that holds every CA but one.
C15_Witness ==
  /\ result.op = "receiveBundle" /\ result.fromEmpty /\ result.err = "ok"
  /\ result.supplied = SuppliedBundle(Slots \ {"SQLService"})
  /\ disk[Path("RPCService", "caCert")] = OriginDir(Slots)[Path("RPCService", "caCert")]
  /\ disk[Path("SQLService", "caCert")] # Nil

(***************************************************************************)
(* C16.  An operation on one slot (loadOrCreate, createCA, writeCAOnly,    *)
(* rotateHostCert, the load of a CA) reads and writes only the four files  *)
(* of that slot and leaves the files of the other slots as they were, and  *)
(* a host certificate it writes is signed with the CA of that slot, never  *)
(* with the CA of another slot.                                            *)
(***************************************************************************)
SlotOps == {"loadOrCreate", "createCA", "writeCAOnly", "rotateHostCert", "loadCA"}

C16_SlotsAreIndependent ==
  result.op \in SlotOps =>
    LET s == SlotOrder[result.slot]
    IN /\ Touched \subseteq SlotFiles(s)
       /\ \A f \in Files \ SlotFiles(s) : disk[f] = before[f]
       /\ Path(s, "hostCert") \in Written =>
            /\ disk[Path(s, "hostCert")][1].issuer \in SerialsOf(bundle[s].CACertificate)
            /\ \A t \in Slots \ {s} :
                 disk[Path(s, "hostCert")][1].issuer
                   \notin SerialsOf(disk[Path(t, "caCert")])
                           \cup SerialsOf(bundle[t].CACertificate)

\* rotateHostCert wrote the host pair of a slot, signed with its CA, next to
\* another slot that holds a CA and a host pair of its own.
C16_Witness ==
  /\ result.op = "rotateHostCert" /\ result.err = "ok"
  /\ \E t \in Slots :
       /\ SlotIndex(t) # result.slot
       /\ \A f \in SlotFiles(t) : disk[f] # Nil
  /\ HostFiles(SlotOrder[result.slot]) \subseteq Written

(***************************************************************************)
(* C17.  For a list of addresses that all parse, extractHosts returns      *)
(* their hosts with the ports stripped, each host once, in the order of    *)
(* its first occurrence in the list: [a:1, a:2, b:1] gives [a, b].         *)
(***************************************************************************)
\* The place of the first address of list l with host h.
FirstAt(l, h) ==
  CHOOSE i \in 1..Len(l) :
    /\ SplitHostPort(l[i]).host = h
    /\ \A j \in 1..(i - 1) : SplitHostPort(l[j]).host # h

WellFormed(l) == \A i \in 1..Len(l) : SplitHostPort(l[i]).err = "ok"

C17_ExtractHosts ==
  (extracted # NotExtracted /\ WellFormed(addressList)) =>
    LET hosts == extracted.hosts
    IN /\ extracted.err = "ok"
       /\ {hosts[i] : i \in 1..Len(hosts)}
            = {SplitHostPort(addressList[i]).host : i \in 1..Len(addressList)}
       /\ \A i \in 1..Len(hosts) : ":" \notin {hosts[i][k] : k \in 1..Len(hosts[i])}
       /\ \A i, j \in 1..Len(hosts) : i # j => hosts[i] # hosts[j]
       /\ \A i, j \in 1..Len(hosts) :
            i < j => FirstAt(addressList, hosts[i]) < FirstAt(addressList, hosts[j])
       /\ addressList = << <<"a", ":", "1">>, <<"a", ":", "2">>, <<"b", ":", "1">> >>
            => hosts = << <<"a">>, <<"b">> >>

\* extractHosts was given a host twice, under different ports, before
\* another host.
C17_Witness ==
  /\ addressList = << <<"a", ":", "1">>, <<"a", ":", "2">>, <<"b", ":", "1">> >>
  /\ extracted.err = "ok"
  /\ Len(extracted.hosts) = 2

(***************************************************************************)
(* C18, as claimed.  When bootstrap or rotate reaches extractHosts under a *)
(* configuration with an address that does not parse, the call returns the *)
(* error InvalidAddress, the process does not die, and no file is written. *)
(***************************************************************************)
\* The addresses of configuration c that the workflows give to extractHosts.
UsedAddresses(c) ==
  {c.Addr, c.AdvertiseAddr, c.HTTPAddr, c.HTTPAdvertiseAddr}
    \cup (IF c.SplitListenSQL THEN {c.SQLAddr, c.SQLAdvertiseAddr} ELSE {})

C18_MalformedAddressIsReturned ==
  (result.op \in {"bootstrap", "rotate"}
     /\ \E a \in UsedAddresses(config) : SplitHostPort(a).err # "ok"
     /\ result.phase \notin {"guard", "collect"})
    => /\ result.err = "InvalidAddress"
       /\ result.writes = <<>>

(***************************************************************************)
(* Vocabulary of the testfilter properties.                                *)
(***************************************************************************)
\* Line j of the input is an event that ends a test with a name.
Terminal(j) ==
  /\ stdin[j].kind = "event"
  /\ stdin[j].Test # <<>>
  /\ stdin[j].Action \in {"pass", "skip", "fail"}

\* Line i of the input closes the buffer of the test of line j: it ends that
\* test, or it is the failure of the package of that test.
Closes(i, j) ==
  /\ stdin[i].kind = "event"
  /\ stdin[i].Package = stdin[j].Package
  /\ \/ stdin[i].Test = stdin[j].Test /\ stdin[i].Action \in {"pass", "skip", "fail"}
     \/ stdin[i].Test = <<>> /\ stdin[i].Action = "fail"

\* The first line of the input that can be in the buffer of the test that
\* line j ends.
SegStart(j) ==
  LET closing == {i \in 1..(j - 1) : Closes(i, j)}
  IN IF closing = {} THEN 1 ELSE 1 + (CHOOSE i \in closing : \A k \in closing : k <= i)

SameTest(l, j) ==
  l.kind = "event" /\ l.Package = stdin[j].Package /\ l.Test = stdin[j].Test

\* The events of the test that line j ends, since its buffer was opened, in
\* the order of the input.
Segment(j) == SelectSeq(SubSeq(stdin, SegStart(j), j), LAMBDA l : SameTest(l, j))

\* What was written of these events, in the order of the output.
WrittenOf(j) ==
  SelectSeq(stdout, LAMBDA l : SameTest(l, j) /\ l.seq \in SegStart(j)..j)

\* C19: in omit mode, every line written is an event of a test that
\* received a fail event (the pseudo-test PackageLevel for the fail event of a
\* package); the empty lines between buffers are left out of account.  Text
\* that is no JSON, and the events of tests that passed, were skipped or
\* never ended, are not written.
C19_OmitWritesFailedTestsOnly ==
  mode = "omit" =>
    \A i \in 1..Len(stdout) :
      stdout[i] # Blank =>
        /\ stdout[i].kind = "event"
        /\ \E j \in 1..Len(stdin) :
             /\ stdin[j].kind = "event"
             /\ stdin[j].Action = "fail"
             /\ stdin[j].Package = stdout[i].Package
             /\ \/ stdin[j].Test = stdout[i].Test
                \/ stdin[j].Test = <<>> /\ stdout[i].Test = PackageLevel

\* C20: in strip mode, of the events of a test that passed or was skipped
\* exactly the first one buffered and the one that ended it are written, in
\* this order, and of a test that failed every event buffered, in the order
\* of the input.
C20_StripKeepsFirstAndLast ==
  mode = "strip" =>
    \A j \in 1..Len(stdin) :
      Terminal(j) =>
        WrittenOf(j) = IF stdin[j].Action = "fail" THEN Segment(j)
                       ELSE <<Segment(j)[1], stdin[j]>>

\* A test with three events passed or was skipped, and two of them were
\* written.
C20_Witness ==
  /\ mode = "strip"
  /\ \E j \in 1..Len(stdin) :
       /\ Terminal(j)
       /\ stdin[j].Action \in {"pass", "skip"}
       /\ Len(Segment(j)) = 3
       /\ Len(WrittenOf(j)) = 2

\* filter has read its input to the end.
AtEndOfInput == filterErr \in {"ok", "not a single test was parsed"}

\* Line j of the input is an event of a test with a name that no event of
\* the input ends.
NeverEnded(j) ==
  /\ stdin[j].kind = "event"
  /\ stdin[j].Test # <<>>
  /\ ~\E k \in 1..Len(stdin) : SameTest(stdin[k], j) /\ Terminal(k)

\* C21: in strip mode, when the input has been read to the end, every line
\* that is no JSON has been written, and so has every event of every test,
\* sub-tests included, that received no pass, skip or fail event.
C21_StripPassesTheRestThrough ==
  (mode = "strip" /\ AtEndOfInput) =>
    \A j \in 1..Len(stdin) :
      (stdin[j].kind = "text" \/ NeverEnded(j)) =>
        \E i \in 1..Len(stdout) : stdout[i] = stdin[j]

(***************************************************************************)
(* Vocabulary of the properties of error handling.                         *)
(***************************************************************************)
\* The slot of the last operation on a single slot.
ResultSlot == SlotOrder[result.slot]

\* The last call ran into a failing read of file k of the slot it was on.
ReadFailed(k) == result.fault = ReadFault(Path(ResultSlot, k))

\* C22, as claimed.  When loadOrCreate cannot load the host certificate for
\* another reason than its absence (permission denied, I/O error), it returns
\* an error and writes no file: it creates no CA and issues no host
\* certificate.
C22_HostCertReadFailureIsFatal ==
  (result.op = "loadOrCreate" /\ ReadFailed("hostCert")) =>
    /\ result.err # "ok"
    /\ result.writes = <<>>

\* The last operation on a single slot found file k of its slot absent, or
\* present.
WasAbsent(k) == before[Path(ResultSlot, k)] = Nil

WasPresent(k) == before[Path(ResultSlot, k)] # Nil

\* loadOrCreate found no host certificate, and then could not load the CA
\* certificate for another reason than its absence, or loaded it and could
\* not load the CA key.
CALoadFailed ==
  /\ result.op = "loadOrCreate"
  /\ WasAbsent("hostCert")
  /\ ~ReadFailed("hostCert")
  /\ \/ ReadFailed("caCert")
     \/ WasPresent("caCert") /\ (WasAbsent("caKey") \/ ReadFailed("caKey"))

\* C23, as claimed.  When loadOrCreate finds no host certificate and then
\* cannot load the CA certificate for another reason than its absence, or
\* loads it and cannot load the CA key, it returns an error, the process does
\* not die, and no file is written: no CA is created and no host certificate
\* issued.
C23_CALoadFailureIsFatal ==
  CALoadFailed =>
    /\ result.err \notin {"ok", "panic"}
    /\ result.writes = <<>>

\* C24, as claimed.  The load of a CA that may be absent (loadCAIfExists)
\* fails when the CA certificate cannot be read for another reason than its
\* absence, and when the CA certificate is on disk while the CA key is absent
\* or cannot be read; it never leaves a slot with a CA certificate and an
\* empty CA key.
C24_CAWithoutKeyIsFatal ==
  result.op = "loadCA" =>
    /\ ReadFailed("caCert") => result.err # "ok"
    /\ (WasPresent("caCert") /\ ~ReadFailed("caCert")
          /\ (WasAbsent("caKey") \/ ReadFailed("caKey"))) => result.err # "ok"
    /\ ~(bundle[ResultSlot].CACertificate # Nil /\ bundle[ResultSlot].CAKey = Nil
          /\ result.err = "ok")

\* The field of a ServiceCertificateBundle that holds what file kind k
\* holds.
FieldOf(sb, k) ==
  CASE k = "caCert" -> sb.CACertificate
    [] k = "caKey" -> sb.CAKey
    [] k = "hostCert" -> sb.HostCertificate
    [] k = "hostKey" -> sb.HostKey

\* After the last operation on a single slot, field k of that slot in memory
\* is not empty and is what the file holds.
InMemoryAsOnDisk(k) ==
  /\ FieldOf(bundle[ResultSlot], k) # Nil
  /\ FieldOf(bundle[ResultSlot], k) = disk[Path(ResultSlot, k)]

\* C25, as claimed.  After a loadOrCreate that succeeds, the bundle in memory
\* holds the CA certificate, the CA key, the host certificate and the host key
\* of the slot, none empty, each as its file on disk holds it.
C25_AsClaimed ==
  (result.op = "loadOrCreate" /\ result.err = "ok") =>
    \A k \in FileKinds : InMemoryAsOnDisk(k)

\* C25, amended.  After a loadOrCreate that succeeds, the bundle in memory
\* holds the host certificate and the host key of the slot, not empty and as
\* on disk; when the call found no host certificate, and so loaded or created
\* the CA, it holds the CA certificate and the CA key as well, not empty and
\* as on disk.  A call that finds the host pair returns without loading the
\* CA.
C25_LoadOrCreateFillsTheBundle ==
  (result.op = "loadOrCreate" /\ result.err = "ok") =>
    /\ InMemoryAsOnDisk("hostCert")
    /\ InMemoryAsOnDisk("hostKey")
    /\ WasAbsent("hostCert") => InMemoryAsOnDisk("caCert") /\ InMemoryAsOnDisk("caKey")

\* A loadOrCreate on a new bundle found the host pair and returned with the
\* CA fields empty, after one that created the CA and the host pair.
C25_Witness ==
  /\ result.op = "loadOrCreate"
  /\ result.err = "ok"
  /\ WasPresent("hostCert")
  /\ bundle[ResultSlot].CACertificate = Nil
  /\ InMemoryAsOnDisk("hostCert")
  /\ prev.op = "loadOrCreate"
  /\ prev.err = "ok"

\* Slot s of directory d holds a certificate without its key.
HalfPair(d, s) ==
  \/ d[Path(s, "caCert")] # Nil /\ d[Path(s, "caKey")] = Nil
  \/ d[Path(s, "hostCert")] # Nil /\ d[Path(s, "hostKey")] = Nil

\* A bootstrap follows a bootstrap that started on an empty directory,
\* failed, and left a certificate without its key.
AfterHalfPair ==
  /\ result.op = "bootstrap"
  /\ prev.op = "bootstrap"
  /\ prev.fromEmpty
  /\ prev.err # "ok"
  /\ \E s \in Slots : HalfPair(before, s)

\* C26, as claimed.  When a bootstrap failed between the write of a CA or
\* host certificate and the write of its key, in whatever slot, the next
\* bootstrap fails with InconsistentPair and changes no file.
C26_HalfPairIsDetected ==
  AfterHalfPair =>
    /\ result.err = "InconsistentPair"
    /\ result.writes = <<>>
    /\ disk = before

\* writeCAOnly was called, without failure of the filesystem, with a CA
\* certificate and a CA key, on a slot where one of the two files existed.
WroteCAOverExisting ==
  /\ result.op = "writeCAOnly"
  /\ result.fault = NoFault
  /\ result.supplied[ResultSlot].CACertificate # Nil
  /\ result.supplied[ResultSlot].CAKey # Nil
  /\ WasPresent("caCert") \/ WasPresent("caKey")

\* C27, as claimed.  writeCAOnly, given a CA certificate and a CA key, fails
\* with AlreadyExists when the CA certificate file or the CA key file exists,
\* and leaves the directory as it was.
C27_AsClaimed ==
  WroteCAOverExisting =>
    /\ result.err = "AlreadyExists"
    /\ disk = before

\* C27, amended.  writeCAOnly, given a CA certificate and a CA key, fails
\* with AlreadyExists when the CA certificate file or the CA key file exists,
\* and changes no file that existed.  When the CA certificate file existed
\* the directory is as it was; when only the CA key file existed, the CA
\* certificate supplied has been written before the call failed at the key.
C27_WriteCANeverOverwrites ==
  WroteCAOverExisting =>
    /\ result.err = "AlreadyExists"
    /\ \A f \in Files : before[f] # Nil => disk[f] = before[f]
    /\ WasPresent("caCert") => disk = before
    /\ WasAbsent("caCert") =>
         /\ result.writes = <<Path(ResultSlot, "caCert")>>
         /\ disk[Path(ResultSlot, "caCert")] = result.supplied[ResultSlot].CACertificate

\* writeCAOnly failed at the CA key that existed, after writing the CA
\* certificate.
C27_Witness ==
  /\ WroteCAOverExisting
  /\ WasAbsent("caCert")
  /\ result.err = "AlreadyExists"
  /\ disk # before

\* C28, as claimed.  rotateServiceCert succeeds only when the host
\* certificate file and the host key file of the slot both exist, and it
\* creates neither: a file of the two that did not exist before the call
\* does not exist after it.
C28_RotateOnlyOverwrites ==
  result.op = "rotateHostCert" =>
    /\ result.err = "ok" => WasPresent("hostCert") /\ WasPresent("hostKey")
    /\ \A k \in {"hostCert", "hostKey"} :
         WasAbsent(k) => disk[Path(ResultSlot, k)] = Nil

\* In directory d, the host certificate and the host key of slot s, when
\* both are there, are those of one issuance.
HostPairMatches(d, s) ==
  (d[Path(s, "hostCert")] # Nil /\ d[Path(s, "hostKey")] # Nil) =>
    SerialsOf(d[Path(s, "hostKey")]) = SerialsOf(d[Path(s, "hostCert")])

\* The last call was a rotate that failed in writing the host key of slot s.
RotateFailedAtKey(s) ==
  /\ result.op = "rotate"
  /\ result.err # "ok"
  /\ result.fault = WriteFault(Path(s, "hostKey"))

\* C29, as claimed.  After every workflow call, with or without error, the
\* host certificate and the host key of every slot that holds both are those
\* of one issuance.
C29_AsClaimed ==
  result.op \in WorkflowOps => \A s \in Slots : HostPairMatches(disk, s)

\* C29, amended.  On a directory that starts empty and that only the
\* workflows write, a workflow call, with or without error, leaves the host
\* certificate and the host key of a slot those of one issuance when both
\* are there, if they were so before the call, except a rotate that fails in
\* writing the host key of the slot: it leaves the certificate it issued
\* next to the key of the issuance before.
C29_HostPairsStayMatched ==
  result.op \in WorkflowOps =>
    \A s \in Slots :
      HostPairMatches(before, s) =>
        \/ HostPairMatches(disk, s)
        \/ /\ RotateFailedAtKey(s)
           /\ disk[Path(s, "hostCert")][1].serial \notin DiskSerials(before)
           /\ disk[Path(s, "hostKey")] = before[Path(s, "hostKey")]

\* A rotate failed in writing the host key of the second slot: the first
\* slot has a new pair of one issuance, the second a new certificate and the
\* old key.
C29_Witness ==
  /\ RotateFailedAtKey("UserAuth")
  /\ NewHostPair("InterNode")
  /\ HostPairMatches(disk, "InterNode")
  /\ ~HostPairMatches(disk, "UserAuth")

\* C30.  Starting from an empty directory, after any sequence of workflow
\* calls in which reads and writes may fail, every host certificate on disk
\* was issued by the CA certificate that is on disk for its slot: no host
\* certificate is there without the CA certificate of its slot.
C30_HostCertsAreOfTheCAOnDisk ==
  \A s \in Slots :
    disk[Path(s, "hostCert")] # Nil =>
      /\ disk[Path(s, "caCert")] # Nil
      /\ \A i \in 1..Len(disk[Path(s, "hostCert")]) :
           disk[Path(s, "hostCert")][i].issuer \in SerialsOf(disk[Path(s, "caCert")])

\* After a receiveBundle that succeeded, a rotate failed on a failure of the
\* filesystem, after it had given InterNode a new host pair.
C30_Witness ==
  /\ prev.op = "receiveBundle"
  /\ prev.err = "ok"
  /\ result.op = "rotate"
  /\ result.err # "ok"
  /\ result.fault # NoFault
  /\ NewHostPair("InterNode")

\* The host files among the files the last call wrote.
HostFilesWritten == {f \in Written : f.kind \in {"hostCert", "hostKey"}}

\* The CA fields that the bundle supplied holds for slot s, as files.
SuppliedCAFiles(s) ==
  {f \in CAFiles(s) : FieldOf(result.supplied[s], f.kind) # Nil}

\* C31.  When a write of a CA fails in receiveBundle, in whatever slot, the
\* call returns the error and has written no host certificate and no host
\* key of any slot, and every CA file that the slots before it were supplied
\* is on disk as supplied.  A receiveBundle that writes a host file has
\* completed the CA writes of all five slots before.
C31_NoHostCertBeforeAllCAsWritten ==
  result.op = "receiveBundle" =>
    /\ result.phase = "writeCA" =>
         /\ result.err \notin {"ok", "panic"}
         /\ HostFilesWritten = {}
         /\ \A i \in 1..(result.slot - 1) : \A f \in SuppliedCAFiles(SlotOrder[i]) :
              /\ f \in Written
              /\ disk[f] = FieldOf(result.supplied[SlotOrder[i]], f.kind)
         /\ \A f \in Files : f \notin Written => disk[f] = before[f]
    /\ HostFilesWritten # {} =>
         \A s \in Slots : \A f \in SuppliedCAFiles(s) :
           /\ f \in Written
           /\ disk[f] = FieldOf(result.supplied[s], f.kind)

\* The write of the CA certificate of the third slot failed in a
\* receiveBundle, after the CA pairs of the two slots before it were written.
C31_Witness ==
  /\ result.op = "receiveBundle"
  /\ result.phase = "writeCA"
  /\ result.slot = 3
  /\ result.fault = WriteFault(Path("SQLService", "caCert"))
  /\ Len(result.writes) = 4
  /\ HostFilesWritten = {}

====
